---------------------------- MODULE Spec2Model ----------------------------
(***************************************************************************)
(* A model of recon-tool (Sprint 0): the status taxonomy, the result data  *)
(* model of recon/core/models.py, the two report renderers of              *)
(* recon/reporting and the `run` command of recon/cli.py.                  *)
(*                                                                         *)
(* Conventions.                                                            *)
(*  - A one-line Python string is a TLA+ string. A text that may hold      *)
(*    newlines is the non-empty sequence of its lines, text.split("\n"):   *)
(*    the empty text "" is <<"">> and "a\n" is <<"a", "">>.                 *)
(*  - Glyphs outside ASCII are written as ASCII tokens (the table is next  *)
(*    to STATUS_EMOJI); accented letters are written unaccented, and the   *)
(*    backquote of Markdown code spans is written as an apostrophe.        *)
(*  - A Python value of unknown type (Any) is a tagged record, see PyStr.  *)
(*  - A float that is a quotient of integers is kept as an exact fraction  *)
(*    [num, den]; rounding is done on the exact value.                     *)
(***************************************************************************)
EXTENDS Integers, Sequences, FiniteSets, TLC

VARIABLES
    entity,     \* an EntityComparison whose validations list is mutated
    icr,        \* an IntegrityCheckResult
    dqm,        \* a DataQualityMetric
    report,     \* a ReconciliationReport
    filters,    \* the `filters` argument of the render calls (Optional[dict])
    result,     \* the value returned by the last call
    fs,         \* the files of the output directory: a set of [name, content]
    cli         \* the state of one `recon run` invocation

vars == <<entity, icr, dqm, report, filters, result, fs, cli>>

(***************************************************************************)
(* Bounds of the model.                                                    *)
(***************************************************************************)
MaxValidations == 3
MaxKeys == 3
MaxOrphans == 12
MaxChecks == 2
MaxTables == 1
MaxEntities == 2
MaxFiles == 1

(***************************************************************************)
(* Generic helpers.                                                        *)
(***************************************************************************)
RECURSIVE SumSeq(_)
SumSeq(s) == IF s = <<>> THEN 0 ELSE Head(s) + SumSeq(Tail(s))

RECURSIVE Flatten(_)
Flatten(ss) == IF ss = <<>> THEN <<>> ELSE Head(ss) \o Flatten(Tail(ss))

Map(f(_), s) == [i \in 1..Len(s) |-> f(s[i])]

RemoveAt(s, i) == SubSeq(s, 1, i - 1) \o SubSeq(s, i + 1, Len(s))

Range(s) == {s[i] : i \in DOMAIN s}

None == [t |-> "none"]

\* no call has returned since the last change of the state
NoResult == [op |-> "none"]

(***************************************************************************)
(* Python values of type Any, and str() and truthiness on them.            *)
(***************************************************************************)
PyNone == [t |-> "none"]
PyStr(s) == [t |-> "str", s |-> s]
PyInt(i) == [t |-> "int", i |-> i]
PyBool(b) == [t |-> "bool", b |-> b]
\* a float with one decimal digit, given in tenths: PyFloat(690) is 69.0
PyFloat(tenths) == [t |-> "float", tenths |-> tenths]

Abs(n) == IF n < 0 THEN -n ELSE n

str(v) ==
    CASE v.t = "none" -> "None"
      [] v.t = "str" -> v.s
      [] v.t = "int" -> ToString(v.i)
      [] v.t = "bool" -> IF v.b THEN "True" ELSE "False"
      [] v.t = "float" ->
            (IF v.tenths < 0 THEN "-" ELSE "")
                \o ToString(Abs(v.tenths) \div 10) \o "."
                \o ToString(Abs(v.tenths) % 10)

truthy(v) ==
    CASE v.t = "none" -> FALSE
      [] v.t = "str" -> v.s # ""
      [] v.t = "int" -> v.i # 0
      [] v.t = "bool" -> v.b
      [] v.t = "float" -> v.tenths # 0

(***************************************************************************)
(* Status taxonomy (models.py).                                            *)
(***************************************************************************)
ValidationStatus ==
    {"MATCH", "MISMATCH", "MISSING_IN_PBI", "MISSING_IN_SOURCE",
     "NOT_VERIFIABLE", "RULE_NOT_DEFINED"}

Severity == {"INFO", "WARNING", "ERROR", "CRITICAL"}

\* A status field is not type-checked at run time: it can hold any Python
\* value.  A member of ValidationStatus is written by its name; a value that
\* is not a member is written as Python prints it: None, the str 'UNKNOWN',
\* the str 'MATCH' (which is not the member MATCH), a member of another Enum.
OtherEnumMembers == {"Severity.INFO"}

OtherStatusValues == {"None", "'UNKNOWN'", "'MATCH'"} \cup OtherEnumMembers

AnyStatus == ValidationStatus \cup OtherStatusValues

\* hasattr(x, 'value'): members of an Enum have it, None and str do not
has_value(x) == x \in ValidationStatus \cup OtherEnumMembers

\* x.value, defined for the members of an Enum only
EnumValue ==
    [x \in ValidationStatus \cup OtherEnumMembers |->
        IF x \in ValidationStatus THEN x
        ELSE SubSeq(x, Len("Severity.") + 1, Len(x))]

enum_value(x) == EnumValue[x]

(***************************************************************************)
(* ValidationResult.                                                       *)
(***************************************************************************)
ValidationResult(status, field_name, source_value, pbi_value, message) ==
    [status |-> status, field_name |-> field_name,
     source_value |-> source_value, pbi_value |-> pbi_value,
     message |-> message, severity |-> "INFO", tolerance_used |-> PyNone]

ValidationResult_to_dict(v) ==
    [status |-> enum_value(v.status), field_name |-> v.field_name,
     source_value |-> v.source_value, pbi_value |-> v.pbi_value,
     message |-> v.message, severity |-> v.severity,
     tolerance_used |-> v.tolerance_used]

(***************************************************************************)
(* EntityComparison.                                                       *)
(***************************************************************************)
EntityComparison(entity_type, entity_id, entity_filters, validations) ==
    [entity_type |-> entity_type, entity_id |-> entity_id,
     entity_filters |-> entity_filters, validations |-> validations]

\* sum(1 for v in validations if v.status == status)
RECURSIVE CountStatus(_, _)
CountStatus(validations, status) ==
    IF validations = <<>> THEN 0
    ELSE (IF Head(validations).status = status THEN 1 ELSE 0)
            + CountStatus(Tail(validations), status)

\* a count that misses the element appended last (a count kept from before)
match_count_stale(e) ==
    CountStatus(SubSeq(e.validations, 1, Len(e.validations) - 1), "MATCH")

match_count(e) == CountStatus(e.validations, "MATCH")

\* a count of everything that is not a MATCH
mismatch_count_not_match(e) ==
    Len(e.validations) - CountStatus(e.validations, "MATCH")

mismatch_count(e) == CountStatus(e.validations, "MISMATCH")

not_verifiable_count(e) == CountStatus(e.validations, "NOT_VERIFIABLE")

EntityComparison_to_dict(e) ==
    [entity_type |-> e.entity_type, entity_id |-> e.entity_id,
     entity_filters |-> e.entity_filters,
     summary |-> [total |-> Len(e.validations),
                  match |-> match_count(e),
                  mismatch |-> mismatch_count(e),
                  not_verifiable |-> not_verifiable_count(e)],
     validations |-> Map(ValidationResult_to_dict, e.validations)]

(***************************************************************************)
(* Values used where a variable plays no part in a specification.          *)
(***************************************************************************)
EmptyEntity == EntityComparison("site", "146", <<>>, <<>>)

NoFilters == [none |-> TRUE, items |-> <<>>]

IdleCli == [pc |-> "idle"]

(***************************************************************************)
(* SpecEntity: one EntityComparison; its validations list is mutated in    *)
(* every way a Python list can be, and its derived counts are read.        *)
(***************************************************************************)
SampleValidations ==
    {ValidationResult(s, "Total MRC", PyFloat(690), PyFloat(690), "checked") :
        s \in ValidationStatus}

\* validations.append(v)
AppendValidation(v) ==
    /\ Len(entity.validations) < MaxValidations
    /\ entity' = [entity EXCEPT !.validations = Append(@, v)]
    /\ result' = NoResult

\* del validations[i]
RemoveValidation(i) ==
    /\ i \in DOMAIN entity.validations
    /\ entity' = [entity EXCEPT !.validations = RemoveAt(@, i)]
    /\ result' = NoResult

\* validations[i] = v
ReplaceValidation(i, v) ==
    /\ i \in DOMAIN entity.validations
    /\ entity.validations[i] # v
    /\ entity' = [entity EXCEPT !.validations[i] = v]
    /\ result' = NoResult

\* validations[i].status = s
SetValidationStatus(i, s) ==
    /\ i \in DOMAIN entity.validations
    /\ entity.validations[i].status # s
    /\ entity' = [entity EXCEPT !.validations[i].status = s]
    /\ result' = NoResult

ReadMatchCount ==
    /\ result' = [op |-> "match_count", value |-> match_count(entity)]
    /\ UNCHANGED entity

ReadMismatchCount ==
    /\ result' = [op |-> "mismatch_count", value |-> mismatch_count(entity)]
    /\ UNCHANGED entity

ReadNotVerifiableCount ==
    /\ result' = [op |-> "not_verifiable_count",
                  value |-> not_verifiable_count(entity)]
    /\ UNCHANGED entity

EntityToDict ==
    /\ result' = [op |-> "EntityComparison.to_dict",
                  doc |-> EntityComparison_to_dict(entity)]
    /\ UNCHANGED entity

InitEntity ==
    /\ entity = EmptyEntity
    /\ icr = None
    /\ dqm = None
    /\ report = None
    /\ filters = NoFilters
    /\ result = NoResult
    /\ fs = {}
    /\ cli = IdleCli

NextEntity ==
    /\ \/ \E v \in SampleValidations : AppendValidation(v)
       \/ \E i \in 1..MaxValidations : RemoveValidation(i)
       \/ \E i \in 1..MaxValidations, v \in SampleValidations :
            ReplaceValidation(i, v)
       \/ \E i \in 1..MaxValidations, s \in ValidationStatus :
            SetValidationStatus(i, s)
       \/ ReadMatchCount
       \/ ReadMismatchCount
       \/ ReadNotVerifiableCount
       \/ EntityToDict
    /\ UNCHANGED <<icr, dqm, report, filters, fs, cli>>

SpecEntity == InitEntity /\ [][NextEntity]_vars

\* the number of elements of the current list with the given status
NumWithStatus(s) ==
    Cardinality({i \in DOMAIN entity.validations :
                    entity.validations[i].status = s})

\* C1: every read of match_count, mismatch_count and not_verifiable_count
\* returns the number of elements of the list, as it is at the moment of the
\* read, whose status is MATCH, MISMATCH and NOT_VERIFIABLE respectively.
C1_CountsAreCurrent ==
    /\ result.op = "match_count"
            => result.value = NumWithStatus("MATCH")
    /\ result.op = "mismatch_count"
            => result.value = NumWithStatus("MISMATCH")
    /\ result.op = "not_verifiable_count"
            => result.value = NumWithStatus("NOT_VERIFIABLE")

\* a read after the list grew to its bound and an element changed status:
\* two MATCH elements follow a non-MATCH one
C1_Witness ==
    /\ result.op = "match_count"
    /\ Len(entity.validations) = 3
    /\ entity.validations[1].status = "RULE_NOT_DEFINED"
    /\ entity.validations[3].status = "MATCH"
    /\ result.value = 2

OnlyCountedStatuses ==
    \A i \in DOMAIN entity.validations :
        entity.validations[i].status
            \in {"MATCH", "MISMATCH", "NOT_VERIFIABLE"}

\* C2: match + mismatch + not_verifiable <= len(validations), with equality
\* when every status is MATCH, MISMATCH or NOT_VERIFIABLE; the summary of
\* to_dict() satisfies the same relation with its total.
C2_CountsPartition ==
    /\ match_count(entity) + mismatch_count(entity)
            + not_verifiable_count(entity) <= Len(entity.validations)
    /\ OnlyCountedStatuses =>
            match_count(entity) + mismatch_count(entity)
                + not_verifiable_count(entity) = Len(entity.validations)
    /\ result.op = "EntityComparison.to_dict" =>
        LET sm == result.doc.summary IN
            /\ sm.total = Len(entity.validations)
            /\ sm.match + sm.mismatch + sm.not_verifiable <= sm.total
            /\ OnlyCountedStatuses =>
                    sm.match + sm.mismatch + sm.not_verifiable = sm.total

\* to_dict() of a full list holding a status that no count covers
C2_Witness ==
    /\ result.op = "EntityComparison.to_dict"
    /\ Len(entity.validations) = 3
    /\ ~OnlyCountedStatuses
    /\ result.doc.summary.match = 1
    /\ result.doc.summary.not_verifiable = 1

(***************************************************************************)
(* Floats that are quotients of integers, kept exact: [num, den], den > 0. *)
(***************************************************************************)
Frac(n, d) == IF d < 0 THEN [num |-> -n, den |-> -d] ELSE [num |-> n, den |-> d]

\* the integer nearest to n/d (d > 0), ties to the even one, as round() does
RoundHalfEven(n, d) ==
    LET q == n \div d
        r == n % d
    IN  IF 2 * r < d THEN q
        ELSE IF 2 * r > d THEN q + 1
        ELSE IF q % 2 = 0 THEN q ELSE q + 1

\* round(x, 2): the nearest multiple of 1/100
round2(x) == Frac(RoundHalfEven(x.num * 100, x.den), 100)

\* seq[:n]
Slice(seq, n) == SubSeq(seq, 1, IF Len(seq) < n THEN Len(seq) ELSE n)

(***************************************************************************)
(* IntegrityCheckResult.                                                   *)
(***************************************************************************)
IntegrityCheckResult(check_name, status, total, matched, missing, orphan_keys) ==
    [check_name |-> check_name, source_table |-> "services",
     target_table |-> "sites", source_key |-> "site_id",
     target_key |-> "site_id", status |-> status,
     total_source_keys |-> total, matched_keys |-> matched,
     missing_in_target |-> missing, orphan_keys |-> orphan_keys,
     severity |-> "WARNING"]

\* a percentage that reads "nothing to match" as a full match
match_percentage_full_when_empty(c) ==
    IF c.total_source_keys = 0 THEN Frac(100, 1)
    ELSE Frac(c.matched_keys * 100, c.total_source_keys)

match_percentage(c) ==
    IF c.total_source_keys = 0 THEN Frac(0, 1)
    ELSE Frac(c.matched_keys * 100, c.total_source_keys)

OrphanSampleSize == 10

\* a sample that keeps the last keys instead of the first
orphan_keys_sample_last(c) ==
    SubSeq(c.orphan_keys,
           IF Len(c.orphan_keys) > OrphanSampleSize
              THEN Len(c.orphan_keys) - OrphanSampleSize + 1 ELSE 1,
           Len(c.orphan_keys))

\* self.orphan_keys[:10]
orphan_keys_sample(c) == Slice(c.orphan_keys, OrphanSampleSize)

IntegrityCheckResult_to_dict(c) ==
    [check_name |-> c.check_name, source_table |-> c.source_table,
     target_table |-> c.target_table, source_key |-> c.source_key,
     target_key |-> c.target_key, status |-> enum_value(c.status),
     total_source_keys |-> c.total_source_keys,
     matched_keys |-> c.matched_keys,
     missing_in_target |-> c.missing_in_target,
     match_percentage |-> round2(match_percentage(c)),
     orphan_keys_sample |-> orphan_keys_sample(c),
     severity |-> c.severity]

(***************************************************************************)
(* DataQualityMetric.                                                      *)
(***************************************************************************)
DataQualityMetric(table_name, total_rows, total_columns, duplicate_rows) ==
    [table_name |-> table_name, total_rows |-> total_rows,
     total_columns |-> total_columns, duplicate_rows |-> duplicate_rows,
     null_counts |-> [site_id |-> 0]]

duplicate_percentage(d) ==
    IF d.total_rows > 0
       THEN round2(Frac(d.duplicate_rows * 100, d.total_rows))
       ELSE Frac(0, 1)

DataQualityMetric_to_dict(d) ==
    [table_name |-> d.table_name, total_rows |-> d.total_rows,
     total_columns |-> d.total_columns, duplicate_rows |-> d.duplicate_rows,
     duplicate_percentage |-> duplicate_percentage(d),
     null_counts |-> d.null_counts]

(***************************************************************************)
(* SpecPercent: IntegrityCheckResult and DataQualityMetric objects are     *)
(* constructed with any integers, and their percentages are read.          *)
(***************************************************************************)
KeyCounts == (-1)..MaxKeys

NewIntegrityCheckResult(total, matched) ==
    /\ icr' = IntegrityCheckResult("services_sites", "MISMATCH", total,
                                   matched, total - matched, <<>>)
    /\ icr' # icr
    /\ result' = NoResult
    /\ UNCHANGED dqm

NewDataQualityMetric(rows, duplicates) ==
    /\ dqm' = DataQualityMetric("services", rows, 4, duplicates)
    /\ dqm' # dqm
    /\ result' = NoResult
    /\ UNCHANGED icr

ReadMatchPercentage ==
    /\ result' = [op |-> "match_percentage", value |-> match_percentage(icr)]
    /\ UNCHANGED <<icr, dqm>>

IntegrityToDict ==
    /\ result' = [op |-> "IntegrityCheckResult.to_dict",
                  doc |-> IntegrityCheckResult_to_dict(icr)]
    /\ UNCHANGED <<icr, dqm>>

DataQualityToDict ==
    /\ result' = [op |-> "DataQualityMetric.to_dict",
                  doc |-> DataQualityMetric_to_dict(dqm)]
    /\ UNCHANGED <<icr, dqm>>

InitPercent ==
    /\ entity = EmptyEntity
    /\ icr = IntegrityCheckResult("services_sites", "MISMATCH", 0, 0, 0, <<>>)
    /\ dqm = DataQualityMetric("services", 0, 4, 0)
    /\ report = None
    /\ filters = NoFilters
    /\ result = NoResult
    /\ fs = {}
    /\ cli = IdleCli

NextPercent ==
    /\ \/ \E total \in KeyCounts, matched \in KeyCounts :
            NewIntegrityCheckResult(total, matched)
       \/ \E rows \in KeyCounts, duplicates \in KeyCounts :
            NewDataQualityMetric(rows, duplicates)
       \/ ReadMatchPercentage
       \/ IntegrityToDict
       \/ DataQualityToDict
    /\ UNCHANGED <<entity, report, filters, fs, cli>>

SpecPercent == InitPercent /\ [][NextPercent]_vars

InPercentRange(x) == 0 <= x.num /\ x.num <= 100 * x.den

IsZero(x) == x.num = 0

\* C3 as stated: for any integers, both percentages lie in [0,100] and are 0
\* if and only if the corresponding total is 0.
C3_AsStated ==
    /\ result.op = "match_percentage" =>
            /\ InPercentRange(result.value)
            /\ IsZero(result.value) <=> icr.total_source_keys = 0
    /\ result.op = "IntegrityCheckResult.to_dict" =>
            /\ InPercentRange(result.doc.match_percentage)
            /\ IsZero(result.doc.match_percentage)
                    <=> icr.total_source_keys = 0
    /\ result.op = "DataQualityMetric.to_dict" =>
            /\ InPercentRange(result.doc.duplicate_percentage)
            /\ IsZero(result.doc.duplicate_percentage) <=> dqm.total_rows = 0

\* C3 as amended: when the part is between 0 and the total, both percentages
\* lie in [0,100]; and they are 0 whenever the corresponding total is 0.
C3_PercentInRange ==
    /\ result.op = "match_percentage" =>
            /\ 0 <= icr.matched_keys /\ icr.matched_keys <= icr.total_source_keys
                    => InPercentRange(result.value)
            /\ icr.total_source_keys = 0 => IsZero(result.value)
    /\ result.op = "IntegrityCheckResult.to_dict" =>
            /\ 0 <= icr.matched_keys /\ icr.matched_keys <= icr.total_source_keys
                    => InPercentRange(result.doc.match_percentage)
            /\ icr.total_source_keys = 0
                    => IsZero(result.doc.match_percentage)
    /\ result.op = "DataQualityMetric.to_dict" =>
            /\ 0 <= dqm.duplicate_rows /\ dqm.duplicate_rows <= dqm.total_rows
                    => InPercentRange(result.doc.duplicate_percentage)
            /\ dqm.total_rows = 0 => IsZero(result.doc.duplicate_percentage)

\* a percentage strictly between 0 and 100 has been read
C3_Witness ==
    /\ result.op = "match_percentage"
    /\ icr.total_source_keys = 3 /\ icr.matched_keys = 2
    /\ result.value = [num |-> 200, den |-> 3]

(***************************************************************************)
(* SpecOrphans: the orphan_keys list of one IntegrityCheckResult grows     *)
(* beyond the sample size, and the result is serialized.                   *)
(***************************************************************************)
OrphanKeys == {"K1", "K2"}

\* orphan_keys.append(k)
AppendOrphanKey(k) ==
    /\ Len(icr.orphan_keys) < MaxOrphans
    /\ icr' = [icr EXCEPT !.orphan_keys = Append(@, k),
                          !.missing_in_target = @ + 1,
                          !.total_source_keys = @ + 1]
    /\ result' = NoResult

\* to_dict() builds a new dict and a new list; the object is not written
SerializeIntegrityCheck ==
    /\ result' = [op |-> "IntegrityCheckResult.to_dict",
                  doc |-> IntegrityCheckResult_to_dict(icr)]
    /\ UNCHANGED icr

InitOrphans ==
    /\ entity = EmptyEntity
    /\ icr = IntegrityCheckResult("services_sites", "MISMATCH", 0, 0, 0, <<>>)
    /\ dqm = None
    /\ report = None
    /\ filters = NoFilters
    /\ result = NoResult
    /\ fs = {}
    /\ cli = IdleCli

NextOrphans ==
    /\ \/ \E k \in OrphanKeys : AppendOrphanKey(k)
       \/ SerializeIntegrityCheck
    /\ UNCHANGED <<entity, dqm, report, filters, fs, cli>>

SpecOrphans == InitOrphans /\ [][NextOrphans]_vars

\* C5: every to_dict() of an IntegrityCheckResult with n orphan keys yields a
\* sample of length min(n, 10) that is the first min(n, 10) keys in their
\* order, and leaves the orphan_keys list of the object as it was.
C5_OrphanSample ==
    [][result'.op = "IntegrityCheckResult.to_dict" =>
        LET n == Len(icr.orphan_keys)
            k == IF n < 10 THEN n ELSE 10
            sample == result'.doc.orphan_keys_sample
        IN  /\ Len(sample) = k
            /\ \A i \in 1..k : sample[i] = icr.orphan_keys[i]
            /\ icr'.orphan_keys = icr.orphan_keys]_vars

\* a list of more than ten keys, whose eleventh differs from its first, has
\* been serialized to a sample of ten
C5_Witness ==
    /\ result.op = "IntegrityCheckResult.to_dict"
    /\ Len(icr.orphan_keys) = 12
    /\ icr.orphan_keys[1] = "K1" /\ icr.orphan_keys[11] = "K2"
    /\ icr.orphan_keys[2] = "K2" /\ icr.orphan_keys[12] = "K1"
    /\ Len(result.doc.orphan_keys_sample) = 10

(***************************************************************************)
(* Text: str + str, str.join and the number formats of the f-strings.      *)
(***************************************************************************)
EmptyText == <<"">>

Front(s) == SubSeq(s, 1, Len(s) - 1)

Last(s) == s[Len(s)]

\* a + b on texts: the last line of a continues with the first line of b
TextConcat(a, b) == Front(a) \o <<Last(a) \o Head(b)>> \o Tail(b)

\* sep.join(texts)
RECURSIVE TextJoin(_, _)
TextJoin(sep, texts) ==
    IF texts = <<>> THEN EmptyText
    ELSE IF Len(texts) = 1 THEN texts[1]
    ELSE TextConcat(TextConcat(texts[1], sep), TextJoin(sep, Tail(texts)))

Newline == <<"", "">>

BlankLine == <<"", "", "">>

\* ", ".join(strings), a one-line string
RECURSIVE CommaJoin(_)
CommaJoin(strings) ==
    IF strings = <<>> THEN ""
    ELSE IF Len(strings) = 1 THEN strings[1]
    ELSE strings[1] \o ", " \o CommaJoin(Tail(strings))

RECURSIVE Pad(_, _)
Pad(n, width) ==
    IF width <= 1 \/ n >= 10 ^ (width - 1) THEN ToString(n)
    ELSE "0" \o Pad(n, width - 1)

\* format(n, ","): groups of three digits
RECURSIVE Grouped(_)
Grouped(n) ==
    IF n < 1000 THEN ToString(n)
    ELSE Grouped(n \div 1000) \o "," \o Pad(n % 1000, 3)

FormatThousands(n) == IF n < 0 THEN "-" \o Grouped(-n) ELSE Grouped(n)

\* format(x, ".{digits}f") of an exact fraction
FormatFixed(x, digits) ==
    LET scaled == RoundHalfEven(x.num * (10 ^ digits), x.den)
        whole == Abs(scaled) \div (10 ^ digits)
        part == Abs(scaled) % (10 ^ digits)
    IN  (IF scaled < 0 THEN "-" ELSE "")
            \o ToString(whole) \o "." \o Pad(part, digits)

(***************************************************************************)
(* datetime.                                                               *)
(***************************************************************************)
datetime(year, month, day, hour, minute, second, microsecond) ==
    [year |-> year, month |-> month, day |-> day, hour |-> hour,
     minute |-> minute, second |-> second, microsecond |-> microsecond]

\* strftime("%Y%m%d_%H%M%S")
strftime_compact(d) ==
    Pad(d.year, 4) \o Pad(d.month, 2) \o Pad(d.day, 2) \o "_"
        \o Pad(d.hour, 2) \o Pad(d.minute, 2) \o Pad(d.second, 2)

\* strftime("%Y-%m-%d %H:%M:%S")
strftime_readable(d) ==
    Pad(d.year, 4) \o "-" \o Pad(d.month, 2) \o "-" \o Pad(d.day, 2) \o " "
        \o Pad(d.hour, 2) \o ":" \o Pad(d.minute, 2) \o ":" \o Pad(d.second, 2)

isoformat(d) ==
    Pad(d.year, 4) \o "-" \o Pad(d.month, 2) \o "-" \o Pad(d.day, 2) \o "T"
        \o Pad(d.hour, 2) \o ":" \o Pad(d.minute, 2) \o ":" \o Pad(d.second, 2)
        \o (IF d.microsecond = 0 THEN "" ELSE "." \o Pad(d.microsecond, 6))

(***************************************************************************)
(* dict: a sequence of <<key, value>> pairs with distinct keys, in         *)
(* insertion order.  Optional[dict]: [none, items].                        *)
(***************************************************************************)
Dict(items) == [none |-> FALSE, items |-> items]

DictKeys(d) == {d.items[i][1] : i \in DOMAIN d.items}

\* d.get(key): the value, or None
DictGet(d, key) ==
    IF key \in DictKeys(d)
       THEN (CHOOSE i \in DOMAIN d.items : d.items[i][1] = key)
       ELSE 0

get(d, key) == IF DictGet(d, key) = 0 THEN PyNone ELSE d.items[DictGet(d, key)][2]

\* bool(filters) of an Optional[dict]
dict_truthy(d) == ~d.none /\ d.items # <<>>

(***************************************************************************)
(* ReconciliationReport.                                                   *)
(***************************************************************************)
ReconciliationReport(project_name, generated_at, config_file, filters_applied) ==
    [project_name |-> project_name, generated_at |-> generated_at,
     config_file |-> config_file,
     integrity_checks |-> <<>>, data_quality |-> <<>>,
     entity_comparisons |-> <<>>,
     sources_loaded |-> <<>>,
     execution_time_seconds |-> Frac(0, 1),
     filters_applied |-> filters_applied]

\* a count kept apart from the list: it forgets the checks after the first
integrity_passed_drifting(checks) == CountStatus(Slice(checks, 1), "MATCH")

\* sum(1 for c in self.integrity_checks if c.status == ValidationStatus.MATCH)
integrity_passed(checks) == CountStatus(checks, "MATCH")

ReconciliationReport_to_dict(r) ==
    [project_name |-> r.project_name,
     generated_at |-> isoformat(r.generated_at),
     config_file |-> r.config_file,
     execution_time_seconds |-> r.execution_time_seconds,
     sources_loaded |-> r.sources_loaded,
     filters_applied |-> r.filters_applied,
     summary |-> [integrity_checks |-> Len(r.integrity_checks),
                  integrity_passed |-> integrity_passed(r.integrity_checks),
                  data_quality_tables |-> Len(r.data_quality),
                  entity_comparisons |-> Len(r.entity_comparisons)],
     integrity_checks |-> Map(IntegrityCheckResult_to_dict, r.integrity_checks),
     data_quality |-> Map(DataQualityMetric_to_dict, r.data_quality),
     entity_comparisons |-> Map(EntityComparison_to_dict, r.entity_comparisons)]

(***************************************************************************)
(* MarkdownReporter.  Glyphs are written as tokens:                        *)
(*   :white_check_mark: U+2705   :x: U+274C   :warning: U+26A0 U+FE0F      *)
(*   :blue_circle: U+1F535   :purple_circle: U+1F7E3   :question: U+2753   *)
(*   :information_source: U+2139 U+FE0F   :red_circle: U+1F534             *)
(*   :mag: U+1F50D   :clipboard: U+1F4CB   :file_folder: U+1F4C1           *)
(*   :link: U+1F517   :bar_chart: U+1F4CA   :chart: U+1F4C8   -> U+2192    *)
(***************************************************************************)
\* a table in which every status has a marker of its own
STATUS_EMOJI_distinct ==
    [MATCH |-> ":white_check_mark:", MISMATCH |-> ":x:",
     MISSING_IN_PBI |-> ":warning:", MISSING_IN_SOURCE |-> ":orange_circle:",
     NOT_VERIFIABLE |-> ":blue_circle:", RULE_NOT_DEFINED |-> ":purple_circle:"]

STATUS_EMOJI ==
    [MATCH |-> ":white_check_mark:", MISMATCH |-> ":x:",
     MISSING_IN_PBI |-> ":warning:", MISSING_IN_SOURCE |-> ":warning:",
     NOT_VERIFIABLE |-> ":blue_circle:", RULE_NOT_DEFINED |-> ":purple_circle:"]

SEVERITY_EMOJI ==
    [INFO |-> ":information_source:", WARNING |-> ":warning:",
     ERROR |-> ":x:", CRITICAL |-> ":red_circle:"]

\* table.get(key, default)
get_or(table, key, default) ==
    IF key \in DOMAIN table THEN table[key] ELSE default

_header(r) ==
    <<"# :mag: Reporte de Reconciliacion",
      "",
      "**Proyecto:** " \o r.project_name \o "  ",
      "**Generado:** " \o strftime_readable(r.generated_at) \o "  ",
      "**Config:** '" \o r.config_file \o "'  ",
      "**Tiempo de ejecucion:** "
            \o FormatFixed(r.execution_time_seconds, 2) \o "s",
      "",
      "---">>

\* the rows of the legend table: status, marker, meaning
LegendRows ==
    << <<"MATCH", ":white_check_mark:",
         "Datos coinciden exactamente (o dentro de tolerancia configurada)">>,
       <<"MISMATCH", ":x:", "Hay valor en ambos lados y NO coinciden">>,
       <<"MISSING_IN_PBI", ":warning:",
         "Existe en source original, NO existe en modelo PBI">>,
       <<"MISSING_IN_SOURCE", ":warning:",
         "Existe en modelo PBI, NO existe en source original">>,
       <<"NOT_VERIFIABLE", ":blue_circle:",
         "No hay datos suficientes para realizar la comparacion">>,
       <<"RULE_NOT_DEFINED", ":purple_circle:",
         "No existe regla/mapeo configurado para ese campo">> >>

LegendLine(row) == "| " \o row[1] \o " | " \o row[2] \o " | " \o row[3] \o " |"

\* a legend that lists only the statuses the counts cover
_status_legend_short ==
    <<"## :clipboard: Leyenda de Estados", "",
      "| Estado | Simbolo | Significado |",
      "|--------|---------|-------------|">>
    \o <<LegendLine(LegendRows[1]), LegendLine(LegendRows[2]),
         LegendLine(LegendRows[5])>>
    \o <<"", "---">>

_status_legend ==
    <<"## :clipboard: Leyenda de Estados",
      "",
      "| Estado | Simbolo | Significado |",
      "|--------|---------|-------------|">>
    \o Map(LegendLine, LegendRows)
    \o <<"",
         "> **Principio de diseno:** La herramienta NUNCA asume ni infiere.  ",
         "> Si no puede verificar, clasifica como 'NOT_VERIFIABLE' o 'RULE_NOT_DEFINED'.  ",
         "> *Nunca \"podria ser...\" o \"probablemente...\"*",
         "",
         "---">>

FilterLine(item) == "- **" \o item[1] \o ":** '" \o str(item[2]) \o "'"

\* a filters section that shows a placeholder when there are no filters
_filters_section_placeholder(f) ==
    IF ~dict_truthy(f)
       THEN <<"## :mag: Filtros Aplicados", "", "*Sin filtros*", "", "---">>
       ELSE <<"## :mag: Filtros Aplicados", "">>
            \o Map(FilterLine, f.items)
            \o <<"", "---">>

_filters_section(f) ==
    IF ~dict_truthy(f) THEN EmptyText
    ELSE <<"## :mag: Filtros Aplicados", "">>
            \o Map(FilterLine, f.items)
            \o <<"", "---">>

SourceRow(item) == "| " \o item[1] \o " | " \o FormatThousands(item[2]) \o " |"

\* a sources section that gives nothing when no source was loaded
_sources_section_dropped(r) ==
    IF r.sources_loaded = <<>>
       THEN EmptyText
       ELSE <<"## :file_folder: Fuentes de Datos Cargadas",
              "",
              "| Fuente | Registros |",
              "|--------|-----------|">>
            \o Map(SourceRow, r.sources_loaded)
            \o <<"", "---">>

_sources_section(r) ==
    IF r.sources_loaded = <<>>
       THEN <<"## :file_folder: Fuentes de Datos",
              "",
              "*No se cargaron fuentes (Sprint 0 skeleton)*",
              "",
              "---">>
       ELSE <<"## :file_folder: Fuentes de Datos Cargadas",
              "",
              "| Fuente | Registros |",
              "|--------|-----------|">>
            \o Map(SourceRow, r.sources_loaded)
            \o <<"", "---">>

IntegrityRow(check) ==
    "| " \o get_or(STATUS_EMOJI, check.status, ":question:") \o " "
        \o check.check_name \o " | "
        \o check.source_table \o " -> " \o check.target_table \o " | "
        \o FormatFixed(match_percentage(check), 1) \o "% | "
        \o FormatThousands(check.missing_in_target) \o " |"

_integrity_section(r) ==
    IF r.integrity_checks = <<>>
       THEN <<"## :link: Verificaciones de Integridad",
              "",
              "*No hay verificaciones de integridad configuradas o ejecutadas*",
              "",
              "---">>
       ELSE <<"## :link: Verificaciones de Integridad",
              "",
              "| Check | Tablas | Match % | Faltantes |",
              "|-------|--------|---------|-----------|">>
            \o Map(IntegrityRow, r.integrity_checks)
            \o <<"", "---">>

FilterPair(item) == item[1] \o "=" \o str(item[2])

\* a row that tests the values for truth instead of for None
ValidationRow_truthy(v) ==
    "| " \o v.field_name \o " | "
        \o (IF truthy(v.source_value) THEN str(v.source_value) ELSE "*N/A*")
        \o " | "
        \o (IF truthy(v.pbi_value) THEN str(v.pbi_value) ELSE "*N/A*")
        \o " | "
        \o get_or(STATUS_EMOJI, v.status, ":question:") \o " "
        \o enum_value(v.status)
        \o " | " \o v.message \o " |"

ValidationRow(v) ==
    "| " \o v.field_name \o " | "
        \o (IF v.source_value # PyNone THEN str(v.source_value) ELSE "*N/A*")
        \o " | "
        \o (IF v.pbi_value # PyNone THEN str(v.pbi_value) ELSE "*N/A*")
        \o " | "
        \o get_or(STATUS_EMOJI, v.status, ":question:") \o " "
        \o enum_value(v.status)
        \o " | " \o v.message \o " |"

\* a summary line with the last two counts in each other's place
EntitySummaryLine_swapped(e) ==
    "**Resumen:** " \o ToString(match_count(e)) \o " :white_check_mark: | "
        \o ToString(not_verifiable_count(e)) \o " :x: | "
        \o ToString(mismatch_count(e)) \o " :blue_circle:"

EntitySummaryLine(e) ==
    "**Resumen:** " \o ToString(match_count(e)) \o " :white_check_mark: | "
        \o ToString(mismatch_count(e)) \o " :x: | "
        \o ToString(not_verifiable_count(e)) \o " :blue_circle:"

_entity_detail(e) ==
    LET header == <<"### " \o e.entity_type \o ": " \o e.entity_id,
                    "",
                    "**Filtros:** " \o CommaJoin(Map(FilterPair, e.entity_filters)),
                    "">>
        summary == <<"",
                     EntitySummaryLine(e),
                     "",
                     "| Campo | Source | PBI | Estado | Mensaje |",
                     "|-------|--------|-----|--------|---------|">>
        rows == Map(ValidationRow, e.validations)
    IN  TextConcat(TextConcat(TextConcat(header, summary), Newline),
                   IF rows = <<>> THEN EmptyText ELSE rows)

_entity_comparisons_section(r) ==
    IF r.entity_comparisons = <<>>
       THEN <<"## :bar_chart: Comparaciones de Entidades",
              "",
              "*No hay comparaciones de entidades ejecutadas*",
              "",
              "---">>
       ELSE <<"## :bar_chart: Comparaciones de Entidades", "">>
            \o TextJoin(Newline, Map(_entity_detail, r.entity_comparisons))
            \o <<"", "---">>

ValidationsLen(e) == Len(e.validations)

_summary_section(r) ==
    LET total_validations == SumSeq(Map(ValidationsLen, r.entity_comparisons))
        total_match == SumSeq(Map(match_count, r.entity_comparisons))
        total_mismatch == SumSeq(Map(mismatch_count, r.entity_comparisons))
        total_not_verifiable ==
            SumSeq(Map(not_verifiable_count, r.entity_comparisons))
        passed == CountStatus(r.integrity_checks, "MATCH")
    IN  <<"## :chart: Resumen Ejecutivo",
          "",
          "### Validaciones de Campos",
          "- **Total validaciones:** " \o ToString(total_validations),
          "- **Coincidencias (MATCH):** " \o ToString(total_match)
                \o " :white_check_mark:",
          "- **Discrepancias (MISMATCH):** " \o ToString(total_mismatch)
                \o " :x:",
          "- **No verificables:** " \o ToString(total_not_verifiable)
                \o " :blue_circle:",
          "",
          "### Integridad Referencial",
          "- **Checks ejecutados:** " \o ToString(Len(r.integrity_checks)),
          "- **Checks pasados:** " \o ToString(passed),
          "",
          "---">>

\* a footer that also tells how many files the output directory held when
\* the document was rendered
_footer_counting(r) ==
    <<"---",
      "",
      "*Generado automaticamente por Recon Tool v0.1.0*  ",
      "*" \o strftime_readable(r.generated_at) \o "*",
      "*" \o ToString(Cardinality(fs)) \o "*">>

_footer(r) ==
    <<"---",
      "",
      "*Generado automaticamente por Recon Tool v0.1.0*  ",
      "*" \o strftime_readable(r.generated_at) \o "*">>

\* filter(None, sections)
RECURSIVE FilterNonEmpty(_)
FilterNonEmpty(sections) ==
    IF sections = <<>> THEN <<>>
    ELSE (IF Head(sections) = EmptyText THEN <<>> ELSE <<Head(sections)>>)
            \o FilterNonEmpty(Tail(sections))

Sections(r, f) ==
    <<_header(r), _status_legend, _filters_section(f), _sources_section(r),
      _integrity_section(r), _entity_comparisons_section(r),
      _summary_section(r), _footer(r)>>

_build_content(r, f) == TextJoin(BlankLine, FilterNonEmpty(Sections(r, f)))

\* _entity_detail reads v.status.value of every validation: a status without
\* that attribute raises AttributeError
_entity_detail_raises(e) ==
    \E i \in DOMAIN e.validations : ~has_value(e.validations[i].status)

_build_content_raises(r) ==
    \E i \in DOMAIN r.entity_comparisons :
        _entity_detail_raises(r.entity_comparisons[i])

\* what a call of _build_content gives its caller: the text, or the exception
BuildContentResult(r, f) ==
    IF _build_content_raises(r)
       THEN [op |-> "MarkdownReporter._build_content",
             raised |-> "AttributeError"]
       ELSE [op |-> "MarkdownReporter._build_content",
             text |-> _build_content(r, f)]

(***************************************************************************)
(* SpecReport: the three result lists of one ReconciliationReport are      *)
(* mutated, and the report is serialized and rendered.                     *)
(***************************************************************************)
SampleTime == datetime(2025, 1, 2, 3, 4, 5, 0)

SampleChecks ==
    {IntegrityCheckResult("services_sites", s, 3, 2, 1, <<"K1">>) :
        s \in ValidationStatus}

SampleTables == {DataQualityMetric("services", 3, 4, 1)}

SampleEntities ==
    {EmptyEntity,
     EntityComparison("site", "146",
        << <<"site_id", PyStr("146")>>, <<"vendor", PyStr("Verizon")>> >>,
        <<ValidationResult("MATCH", "Total MRC", PyFloat(690), PyFloat(690),
                           "Values match exactly")>>)}

\* integrity_checks.append(c)
AddIntegrityCheck(c) ==
    /\ Len(report.integrity_checks) < MaxChecks
    /\ report' = [report EXCEPT !.integrity_checks = Append(@, c)]
    /\ result' = NoResult

\* del integrity_checks[i]
RemoveIntegrityCheck(i) ==
    /\ i \in DOMAIN report.integrity_checks
    /\ report' = [report EXCEPT !.integrity_checks = RemoveAt(@, i)]
    /\ result' = NoResult

\* integrity_checks[i].status = s
SetIntegrityStatus(i, s) ==
    /\ i \in DOMAIN report.integrity_checks
    /\ report.integrity_checks[i].status # s
    /\ report' = [report EXCEPT !.integrity_checks[i].status = s]
    /\ result' = NoResult

AddDataQuality(d) ==
    /\ Len(report.data_quality) < MaxTables
    /\ report' = [report EXCEPT !.data_quality = Append(@, d)]
    /\ result' = NoResult

RemoveDataQuality(i) ==
    /\ i \in DOMAIN report.data_quality
    /\ report' = [report EXCEPT !.data_quality = RemoveAt(@, i)]
    /\ result' = NoResult

AddEntityComparison(e) ==
    /\ Len(report.entity_comparisons) < MaxEntities
    /\ report' = [report EXCEPT !.entity_comparisons = Append(@, e)]
    /\ result' = NoResult

RemoveEntityComparison(i) ==
    /\ i \in DOMAIN report.entity_comparisons
    /\ report' = [report EXCEPT !.entity_comparisons = RemoveAt(@, i)]
    /\ result' = NoResult

ReportToDict ==
    /\ result' = [op |-> "ReconciliationReport.to_dict",
                  doc |-> ReconciliationReport_to_dict(report)]
    /\ UNCHANGED report

MarkdownBuildContent ==
    /\ result' = BuildContentResult(report, filters)
    /\ UNCHANGED report

InitReport ==
    /\ entity = EmptyEntity
    /\ icr = None
    /\ dqm = None
    /\ report = ReconciliationReport("mvh", SampleTime, "configs/mvh.yaml",
                                     Dict(<<>>))
    /\ filters = NoFilters
    /\ result = NoResult
    /\ fs = {}
    /\ cli = IdleCli

NextReport ==
    /\ \/ \E c \in SampleChecks : AddIntegrityCheck(c)
       \/ \E i \in 1..MaxChecks : RemoveIntegrityCheck(i)
       \/ \E i \in 1..MaxChecks, st \in ValidationStatus :
            SetIntegrityStatus(i, st)
       \/ \E d \in SampleTables : AddDataQuality(d)
       \/ \E i \in 1..MaxTables : RemoveDataQuality(i)
       \/ \E e \in SampleEntities : AddEntityComparison(e)
       \/ \E i \in 1..MaxEntities : RemoveEntityComparison(i)
       \/ ReportToDict
       \/ MarkdownBuildContent
    /\ UNCHANGED <<entity, icr, dqm, filters, fs, cli>>

SpecReport == InitReport /\ [][NextReport]_vars

HasPrefix(line, prefix) ==
    Len(line) >= Len(prefix) /\ SubSeq(line, 1, Len(prefix)) = prefix

\* the lines of a text that begin with the prefix
LinesWithPrefix(text, prefix) ==
    {i \in DOMAIN text : HasPrefix(text[i], prefix)}

NumPassedNow ==
    Cardinality({i \in DOMAIN report.integrity_checks :
                    report.integrity_checks[i].status = "MATCH"})

\* C4: a serialized report carries the current lengths of the three lists and
\* the current number of integrity checks with status MATCH; the Markdown
\* summary shows the same number of checks run and passed.
C4_SummaryIsCurrent ==
    /\ result.op = "ReconciliationReport.to_dict" =>
        LET sm == result.doc.summary IN
            /\ sm.integrity_checks = Len(report.integrity_checks)
            /\ sm.data_quality_tables = Len(report.data_quality)
            /\ sm.entity_comparisons = Len(report.entity_comparisons)
            /\ sm.integrity_passed = NumPassedNow
    /\ result.op = "MarkdownReporter._build_content" =>
        /\ \E i \in DOMAIN result.text :
                result.text[i] = "- **Checks pasados:** " \o ToString(NumPassedNow)
        /\ Cardinality(LinesWithPrefix(result.text, "- **Checks pasados:**")) = 1
        /\ \E i \in DOMAIN result.text :
                result.text[i] = "- **Checks ejecutados:** "
                                    \o ToString(Len(report.integrity_checks))
        /\ Cardinality(LinesWithPrefix(result.text, "- **Checks ejecutados:**")) = 1

\* the report is serialized after a check was added as MATCH, a second one
\* was added and then passed, and the first one stopped passing
C4_Witness ==
    /\ result.op = "ReconciliationReport.to_dict"
    /\ Len(report.integrity_checks) = 2
    /\ report.integrity_checks[1].status = "MISSING_IN_PBI"
    /\ report.integrity_checks[2].status = "MATCH"
    /\ Len(report.data_quality) = 1
    /\ Len(report.entity_comparisons) = 1
    /\ result.doc.summary.integrity_passed = 1

(***************************************************************************)
(* SpecDocument: a report, as the engine hands it over, is rendered to     *)
(* Markdown with a filters argument and serialized; it is not mutated.     *)
(***************************************************************************)
V_match ==
    ValidationResult("MATCH", "Total MRC", PyFloat(690), PyFloat(690),
                     "Values match exactly")
V_mismatch ==
    ValidationResult("MISMATCH", "Bandwidth", PyInt(100), PyInt(0),
                     "Values differ")
V_missing_pbi ==
    ValidationResult("MISSING_IN_PBI", "Vendor", PyStr("Verizon"), PyNone,
                     "Not in PBI")
V_missing_source ==
    ValidationResult("MISSING_IN_SOURCE", "Circuit", PyNone, PyStr(""),
                     "Not in source")
V_not_verifiable ==
    ValidationResult("NOT_VERIFIABLE", "Active", PyBool(FALSE), PyNone,
                     "No data")
V_rule_not_defined ==
    ValidationResult("RULE_NOT_DEFINED", "Term", PyNone, PyNone, "No rule")

SiteEntity(validations) ==
    EntityComparison("site", "146",
        << <<"site_id", PyStr("146")>>, <<"vendor", PyStr("Verizon")>> >>,
        validations)

DocEntityLists ==
    {<<>>,
     <<EmptyEntity>>,
     <<SiteEntity(<<V_match>>)>>,
     <<SiteEntity(<<V_missing_pbi, V_missing_source>>), EmptyEntity>>,
     <<SiteEntity(<<V_mismatch, V_not_verifiable, V_rule_not_defined>>),
       SiteEntity(<<V_match, V_match, V_mismatch>>)>>}

DocCheckLists ==
    {<<>>}
    \cup {<<IntegrityCheckResult("services_sites", s, 3, 2, 1, <<"K1">>)>> :
            s \in ValidationStatus}
    \cup {<<IntegrityCheckResult("services_sites", "MATCH", 3, 3, 0, <<>>),
            IntegrityCheckResult("circuits_sites", "MISMATCH", 0, 0, 1234,
                                 <<"K1", "K2">>)>>}

DocSources == {<<>>, << <<"services", 12345>>, <<"sites", 7>> >>}

DocFilters ==
    {NoFilters,
     Dict(<<>>),
     Dict(<< <<"site_id", PyStr("146")>> >>),
     Dict(<< <<"vendor", PyNone>> >>),
     Dict(<< <<"site_id", PyStr("146")>>, <<"vendor", PyStr("Verizon")>>,
             <<"service_type", PyStr("Broadband")>> >>)}

DocReports ==
    {[ReconciliationReport("mvh", SampleTime, "configs/mvh.yaml", Dict(<<>>))
        EXCEPT !.integrity_checks = c, !.entity_comparisons = e,
               !.sources_loaded = src] :
        c \in DocCheckLists, e \in DocEntityLists, src \in DocSources}

\* MarkdownReporter._build_content(report, f)
RenderMarkdown(f) ==
    /\ filters' = f
    /\ result' = BuildContentResult(report, f)
    /\ UNCHANGED report

\* report.to_dict()
RenderDict ==
    /\ result' = [op |-> "ReconciliationReport.to_dict",
                  doc |-> ReconciliationReport_to_dict(report)]
    /\ UNCHANGED <<report, filters>>

InitDocument ==
    /\ entity = EmptyEntity
    /\ icr = None
    /\ dqm = None
    /\ report \in DocReports
    /\ filters = NoFilters
    /\ result = NoResult
    /\ fs = {}
    /\ cli = IdleCli

NextDocument ==
    /\ \/ \E f \in DocFilters : RenderMarkdown(f)
       \/ RenderDict
    /\ UNCHANGED <<entity, icr, dqm, fs, cli>>

SpecDocument == InitDocument /\ [][NextDocument]_vars

IsMarkdown == result.op = "MarkdownReporter._build_content"

\* the lines of the legend section of a rendered document: from its heading
\* to the rule that ends it
LegendStart(text) ==
    CHOOSE i \in DOMAIN text : text[i] = "## :clipboard: Leyenda de Estados"

LegendEnd(text) ==
    CHOOSE j \in DOMAIN text :
        /\ j > LegendStart(text)
        /\ text[j] = "---"
        /\ \A k \in (LegendStart(text) + 1)..(j - 1) : text[k] # "---"

LegendTableLines(text) ==
    {i \in LegendStart(text)..LegendEnd(text) : HasPrefix(text[i], "|")}

\* the legend text of the empty report rendered without filters
ReferenceLegend ==
    LET text == _build_content(
                    ReconciliationReport("test", SampleTime, "test.yaml",
                                         Dict(<<>>)), NoFilters)
    IN  SubSeq(text, LegendStart(text), LegendEnd(text))

\* C9: every rendered document holds the legend table once, with exactly six
\* status rows, one for each ValidationStatus, and the legend text is the
\* same whatever the report and the filters are.
C9_LegendComplete ==
    IsMarkdown =>
        /\ Cardinality({i \in DOMAIN result.text :
                result.text[i] = "## :clipboard: Leyenda de Estados"}) = 1
        /\ Cardinality(LegendTableLines(result.text)) = 2 + 6
        /\ \A st \in {"MATCH", "MISMATCH", "MISSING_IN_PBI",
                      "MISSING_IN_SOURCE", "NOT_VERIFIABLE",
                      "RULE_NOT_DEFINED"} :
              Cardinality({i \in LegendTableLines(result.text) :
                    HasPrefix(result.text[i], "| " \o st \o " | ")}) = 1
        /\ SubSeq(result.text, LegendStart(result.text),
                  LegendEnd(result.text)) = ReferenceLegend

\* a document of a report with checks, entities, sources and filters
C9_Witness ==
    /\ IsMarkdown
    /\ Len(report.integrity_checks) = 2
    /\ Len(report.entity_comparisons) = 2
    /\ report.sources_loaded # <<>>
    /\ Len(filters.items) = 3
    /\ LegendStart(result.text) = 10

Injective(table) ==
    \A a, b \in DOMAIN table : table[a] = table[b] => a = b

\* C10 as stated: both marker tables are bijections.
C10_AsStated ==
    IsMarkdown =>
        /\ DOMAIN STATUS_EMOJI = ValidationStatus
        /\ DOMAIN SEVERITY_EMOJI = Severity
        /\ Injective(STATUS_EMOJI)
        /\ Injective(SEVERITY_EMOJI)

\* C10 as amended: every status and every severity has a marker; distinct
\* severities have distinct markers; two distinct statuses share a marker
\* exactly when they are MISSING_IN_PBI and MISSING_IN_SOURCE; the legend of
\* a rendered document shows each status with the marker of the table.
C10_Markers ==
    IsMarkdown =>
        /\ DOMAIN STATUS_EMOJI = ValidationStatus
        /\ DOMAIN SEVERITY_EMOJI = Severity
        /\ Injective(SEVERITY_EMOJI)
        /\ \A a, b \in ValidationStatus :
                STATUS_EMOJI[a] = STATUS_EMOJI[b] <=>
                    \/ a = b
                    \/ {a, b} = {"MISSING_IN_PBI", "MISSING_IN_SOURCE"}
        /\ \A st \in ValidationStatus :
                \E i \in LegendTableLines(result.text) :
                    HasPrefix(result.text[i],
                              "| " \o st \o " | " \o STATUS_EMOJI[st] \o " | ")

\* a document with a MISSING_IN_PBI row and a MISSING_IN_SOURCE row, both
\* shown with the warning marker
C10_Witness ==
    /\ IsMarkdown
    /\ \E i \in DOMAIN result.text :
            result.text[i] =
                "| Vendor | Verizon | *N/A* | :warning: MISSING_IN_PBI | Not in PBI |"
    /\ \E i \in DOMAIN result.text :
            result.text[i] =
                "| Circuit | *N/A* |  | :warning: MISSING_IN_SOURCE | Not in source |"

(***************************************************************************)
(* JsonReporter and the file-writing half of MarkdownReporter.             *)
(*                                                                         *)
(* json.dump / json.dumps turn the dict into JSON text; the text is kept   *)
(* as the document it encodes together with its indentation, [json,        *)
(* indent]: every value of the model is a JSON value, so default=str is    *)
(* never called and the encoding loses nothing.                            *)
(***************************************************************************)
OutputDir == "reports"

META ==
    [tool_version |-> "0.1.0", format_version |-> "1.0",
     generated_by |-> "recon-tool",
     documentation |-> "https://github.com/your-org/recon-tool"]

\* output_data['_meta'] = {...}
with_meta(data) ==
    [k \in DOMAIN data \cup {"_meta"} |->
        IF k = "_meta" THEN META ELSE data[k]]

json_dumps(data, pretty) ==
    [json |-> data, indent |-> IF pretty THEN 2 ELSE 0]

\* a suffix that puts the vendor before the site
JsonReporter_filter_suffix_swapped(f) ==
    IF dict_truthy(f)
       THEN (IF truthy(get(f, "vendor"))
                THEN "_" \o str(get(f, "vendor")) ELSE "")
            \o (IF truthy(get(f, "site_id"))
                   THEN "_site" \o str(get(f, "site_id")) ELSE "")
       ELSE ""

JsonReporter_filter_suffix(f) ==
    IF dict_truthy(f)
       THEN (IF truthy(get(f, "site_id"))
                THEN "_site" \o str(get(f, "site_id")) ELSE "")
            \o (IF truthy(get(f, "vendor"))
                   THEN "_" \o str(get(f, "vendor")) ELSE "")
       ELSE ""

MarkdownReporter_filter_suffix(f) ==
    IF dict_truthy(f)
       THEN (IF truthy(get(f, "site_id"))
                THEN "_site" \o str(get(f, "site_id")) ELSE "")
            \o (IF truthy(get(f, "vendor"))
                   THEN "_" \o str(get(f, "vendor")) ELSE "")
       ELSE ""

JsonReporter_output_path(r, f) ==
    OutputDir \o "/" \o "recon_" \o r.project_name
        \o JsonReporter_filter_suffix(f) \o "_"
        \o strftime_compact(r.generated_at) \o ".json"

MarkdownReporter_output_path(r, f) ==
    OutputDir \o "/" \o "recon_" \o r.project_name
        \o MarkdownReporter_filter_suffix(f) \o "_"
        \o strftime_compact(r.generated_at) \o ".md"

\* open(path, 'w') and a complete write: the file holds exactly the content
WriteFile(files, path, content) ==
    {x \in files : x.name # path} \cup {[name |-> path, content |-> content]}

CanWrite(path) ==
    \/ \E x \in fs : x.name = path
    \/ Cardinality(fs) < MaxFiles

\* JsonReporter.generate(report, f, pretty)
JsonGenerate(f, pretty) ==
    /\ CanWrite(JsonReporter_output_path(report, f))
    /\ fs' = WriteFile(fs, JsonReporter_output_path(report, f),
                json_dumps(with_meta(ReconciliationReport_to_dict(report)),
                           pretty))
    /\ result' = [op |-> "JsonReporter.generate",
                  path |-> JsonReporter_output_path(report, f)]
    /\ filters' = f
    /\ UNCHANGED report

\* JsonReporter.to_string(report, pretty)
JsonToString(pretty) ==
    /\ result' = [op |-> "JsonReporter.to_string",
                  value |-> json_dumps(ReconciliationReport_to_dict(report),
                                       pretty)]
    /\ UNCHANGED <<report, filters, fs>>

\* MarkdownReporter.generate(report, f)
MarkdownGenerate(f) ==
    /\ CanWrite(MarkdownReporter_output_path(report, f))
    /\ fs' = WriteFile(fs, MarkdownReporter_output_path(report, f),
                       [text |-> _build_content(report, f)])
    /\ result' = [op |-> "MarkdownReporter.generate",
                  path |-> MarkdownReporter_output_path(report, f)]
    /\ filters' = f
    /\ UNCHANGED report

(***************************************************************************)
(* SpecFiles: reports are written to the output directory with every       *)
(* kind of filters argument, and rendered in memory.                       *)
(***************************************************************************)
OtherTime == datetime(2026, 11, 30, 23, 59, 9, 123456)

FileReports ==
    {ReconciliationReport("mvh", SampleTime, "configs/mvh.yaml", Dict(<<>>)),
     [ReconciliationReport("test", OtherTime, "test.yaml",
                           Dict(<< <<"site_id", PyStr("146")>> >>))
        EXCEPT !.integrity_checks =
                    <<IntegrityCheckResult("services_sites", "MATCH", 3, 3,
                                           0, <<>>)>>,
               !.entity_comparisons = <<SiteEntity(<<V_match>>)>>]}

\* the items a filters dict may hold for a key: none, or one value
FilterItems(key, values) == {<<>>} \cup {<< <<key, v>> >> : v \in values}

\* None, {} and dicts with site_id, vendor and service_type entries whose
\* value is a string, the empty string or None
FileFilters ==
    {NoFilters}
    \cup {Dict(a \o b \o c) :
            a \in FilterItems("site_id", {PyStr("146"), PyStr("")}),
            b \in FilterItems("vendor", {PyStr("Verizon"), PyNone}),
            c \in FilterItems("service_type", {PyStr("Broadband")})}

InitFiles ==
    /\ entity = EmptyEntity
    /\ icr = None
    /\ dqm = None
    /\ report \in FileReports
    /\ filters = NoFilters
    /\ result = NoResult
    /\ fs = {}
    /\ cli = IdleCli

NextFiles ==
    /\ \/ \E f \in FileFilters, pretty \in BOOLEAN : JsonGenerate(f, pretty)
       \/ \E pretty \in BOOLEAN : JsonToString(pretty)
       \/ \E f \in FileFilters : MarkdownGenerate(f)
    /\ UNCHANGED <<entity, icr, dqm, cli>>

SpecFiles == InitFiles /\ [][NextFiles]_vars

HasSuffix(line, suffix) ==
    /\ Len(line) >= Len(suffix)
    /\ SubSeq(line, Len(line) - Len(suffix) + 1, Len(line)) = suffix

\* C6: the document returned by to_string and the document that generate
\* stores for the same report are the same document, _meta included.
C6_SameDocument ==
    result.op = "JsonReporter.to_string" =>
        \A x \in fs :
            HasSuffix(x.name, ".json") =>
                /\ DOMAIN x.content.json = DOMAIN result.value.json
                /\ x.content.json = result.value.json

\* a filter on the key was applied: the dict holds a non-empty value for it
Applied(f, key) ==
    /\ ~f.none
    /\ \E i \in DOMAIN f.items :
            /\ f.items[i][1] = key
            /\ f.items[i][2] \notin {PyNone, PyStr("")}

AppliedValue(f, key) ==
    LET i == CHOOSE j \in DOMAIN f.items : f.items[j][1] = key
    IN  f.items[i][2].s

ExpectedSuffix(f) ==
    (IF Applied(f, "site_id") THEN "_site" \o AppliedValue(f, "site_id") ELSE "")
        \o (IF Applied(f, "vendor") THEN "_" \o AppliedValue(f, "vendor") ELSE "")

\* the generation time of the report, as YYYYMMDD_HHMMSS
ExpectedStamp ==
    IF report.project_name = "mvh" THEN "20250102_030405"
    ELSE "20261130_235909"

\* C7: the file that generate writes is named
\* recon_{project}{suffix}_{YYYYMMDD_HHMMSS}.{ext}; the suffix is _site{id} if
\* a site_id filter was applied, then _{vendor} if a vendor filter was
\* applied, and empty for None and {}; no other key contributes.
C7_Filename ==
    /\ result.op = "JsonReporter.generate" =>
        /\ result.path = "reports/recon_" \o report.project_name
                \o ExpectedSuffix(filters) \o "_" \o ExpectedStamp \o ".json"
        /\ \E x \in fs : x.name = result.path
    /\ result.op = "MarkdownReporter.generate" =>
        /\ result.path = "reports/recon_" \o report.project_name
                \o ExpectedSuffix(filters) \o "_" \o ExpectedStamp \o ".md"
        /\ \E x \in fs : x.name = result.path

\* the JSON report written with site, vendor and service type filters
C7_Witness ==
    /\ result.op = "JsonReporter.generate"
    /\ filters = Dict(<< <<"site_id", PyStr("146")>>,
                         <<"vendor", PyStr("Verizon")>>,
                         <<"service_type", PyStr("Broadband")>> >>)
    /\ result.path = "reports/recon_mvh_site146_Verizon_20250102_030405.json"

(***************************************************************************)
(* The `run` command of cli.py.  One invocation goes through               *)
(*   start -> loaded -> report -> markdown_done -> json_done -> done       *)
(* or leaves at start with exit status 1.  The configuration document is   *)
(* part of the environment: missing, malformed, or valid with or without   *)
(* a project name.                                                         *)
(***************************************************************************)
ConfigDocuments ==
    {[state |-> "missing"], [state |-> "malformed"],
     [state |-> "valid", name |-> PyStr("mvh")],
     [state |-> "valid", name |-> PyNone]}

\* the options of one invocation; an option that is not given is None
RunOptions ==
    [project : {"mvh"},
     site : {PyNone, PyStr(""), PyStr("146")},
     vendor : {PyNone, PyStr("Verizon")},
     service_type : {PyNone, PyStr("Broadband")},
     output : {"console", "markdown", "json", "all"},
     document : ConfigDocuments]

\* Path(config_dir) / f"{project}.yaml" with the default config_dir
config_path(project) == "configs/" \o project \o ".yaml"

\* ConfigLoader(config_path).load() succeeds; config.name is project.name of
\* the document, 'unknown' when the document has none
RunLoadConfig ==
    /\ cli.pc = "start"
    /\ cli.document.state = "valid"
    /\ cli' = [cli EXCEPT !.pc = "loaded",
                          !.config_name =
                              IF cli.document.name = PyNone THEN "unknown"
                              ELSE str(cli.document.name)]
    /\ UNCHANGED <<report, filters, result, fs>>

\* a run that goes on with a defaulted configuration when loading failed
RunLoadConfigFails_defaulting ==
    /\ cli.pc = "start"
    /\ cli.document.state # "valid"
    /\ cli' = [cli EXCEPT !.pc = "loaded", !.config_name = "unknown"]
    /\ UNCHANGED <<report, filters, result, fs>>

\* ConfigLoader raises ConfigurationError (no document) or load() raises
\* another exception (a document that does not parse): sys.exit(1)
RunLoadConfigFails ==
    /\ cli.pc = "start"
    /\ cli.document.state # "valid"
    /\ cli' = [cli EXCEPT !.pc = "exited", !.exit_code = 1]
    /\ UNCHANGED <<report, filters, result, fs>>

\* filters = {} and the three `if option:` assignments
run_filters(options) ==
    Dict((IF truthy(options.site)
             THEN << <<"site_id", options.site>> >> ELSE <<>>)
         \o (IF truthy(options.vendor)
                THEN << <<"vendor", options.vendor>> >> ELSE <<>>)
         \o (IF truthy(options.service_type)
                THEN << <<"service_type", options.service_type>> >>
                ELSE <<>>))

\* report = ReconciliationReport(...), generated_at=datetime.now()
RunCreateReport(now, elapsed_ms) ==
    /\ cli.pc = "loaded"
    /\ filters' = run_filters(cli)
    /\ report' = [ReconciliationReport(cli.config_name, now,
                                       config_path(cli.project),
                                       run_filters(cli))
                    EXCEPT !.execution_time_seconds = Frac(elapsed_ms, 1000)]
    /\ cli' = [cli EXCEPT !.pc = "report"]
    /\ UNCHANGED <<result, fs>>

\* if output in ['markdown', 'all']: MarkdownReporter(output_dir).generate(report, filters)
RunMarkdown ==
    /\ cli.pc = "report"
    /\ IF cli.output \in {"markdown", "all"}
          THEN /\ fs' = WriteFile(fs,
                            MarkdownReporter_output_path(report, filters),
                            [text |-> _build_content(report, filters)])
               /\ result' = [op |-> "MarkdownReporter.generate",
                             path |-> MarkdownReporter_output_path(report,
                                                                   filters)]
          ELSE UNCHANGED <<fs, result>>
    /\ cli' = [cli EXCEPT !.pc = "markdown_done"]
    /\ UNCHANGED <<report, filters>>

\* if output in ['json', 'all']: JsonReporter(output_dir).generate(report)
RunJson ==
    /\ cli.pc = "markdown_done"
    /\ IF cli.output \in {"json", "all"}
          THEN /\ fs' = WriteFile(fs,
                            JsonReporter_output_path(report, NoFilters),
                            json_dumps(with_meta(
                                ReconciliationReport_to_dict(report)), TRUE))
               /\ result' = [op |-> "JsonReporter.generate",
                             path |-> JsonReporter_output_path(report,
                                                               NoFilters)]
          ELSE UNCHANGED <<fs, result>>
    /\ cli' = [cli EXCEPT !.pc = "json_done"]
    /\ UNCHANGED <<report, filters>>

\* if output == 'console': _display_console_report(report); the run returns
RunFinish ==
    /\ cli.pc = "json_done"
    /\ cli' = [cli EXCEPT !.pc = "done", !.exit_code = 0]
    /\ UNCHANGED <<report, filters, result, fs>>

InitRun ==
    /\ entity = EmptyEntity
    /\ icr = None
    /\ dqm = None
    /\ report = None
    /\ filters = NoFilters
    /\ result = NoResult
    /\ fs = {}
    /\ \E o \in RunOptions :
        cli = [pc |-> "start", project |-> o.project, site |-> o.site,
               vendor |-> o.vendor, service_type |-> o.service_type,
               output |-> o.output, document |-> o.document,
               config_name |-> "", exit_code |-> -1]

NextRun ==
    /\ \/ RunLoadConfig
       \/ RunLoadConfigFails
       \/ \E now \in {SampleTime, OtherTime}, elapsed_ms \in {0, 1250} :
            RunCreateReport(now, elapsed_ms)
       \/ RunMarkdown
       \/ RunJson
       \/ RunFinish
    /\ UNCHANGED <<entity, icr, dqm>>

SpecRun == InitRun /\ [][NextRun]_vars

\* the name of a file without its extension
Stem(name, ext) == SubSeq(name, 1, Len(name) - Len(ext))

\* C8: a run with output 'all' writes a Markdown file and a JSON file whose
\* names are equal up to the extension.
C8_SameName ==
    cli.pc = "done" /\ cli.output = "all" =>
        \E x, y \in fs :
            /\ HasSuffix(x.name, ".md")
            /\ HasSuffix(y.name, ".json")
            /\ Stem(x.name, ".md") = Stem(y.name, ".json")

(***************************************************************************)
(* SpecStatus: a report whose results carry any status value, a member of  *)
(* ValidationStatus or not, is rendered to Markdown.                       *)
(***************************************************************************)
\* entity_comparisons[i].validations[j].status = s
SetReportValidationStatus(i, j, s) ==
    /\ i \in DOMAIN report.entity_comparisons
    /\ j \in DOMAIN report.entity_comparisons[i].validations
    /\ report.entity_comparisons[i].validations[j].status # s
    /\ report' = [report EXCEPT
                    !.entity_comparisons[i].validations[j].status = s]
    /\ result' = NoResult

InitStatus ==
    /\ entity = EmptyEntity
    /\ icr = None
    /\ dqm = None
    /\ report =
        [ReconciliationReport("mvh", SampleTime, "configs/mvh.yaml", Dict(<<>>))
            EXCEPT !.integrity_checks =
                        <<IntegrityCheckResult("services_sites", "MATCH",
                                               3, 2, 1, <<"K1">>)>>,
                   !.entity_comparisons = <<SiteEntity(<<V_match>>)>>]
    /\ filters = NoFilters
    /\ result = NoResult
    /\ fs = {}
    /\ cli = IdleCli

NextStatus ==
    /\ \/ \E s \in AnyStatus : SetIntegrityStatus(1, s) /\ UNCHANGED filters
       \/ \E s \in AnyStatus :
            SetReportValidationStatus(1, 1, s) /\ UNCHANGED filters
       \/ RenderMarkdown(NoFilters)
    /\ UNCHANGED <<entity, icr, dqm, fs, cli>>

SpecStatus == InitStatus /\ [][NextStatus]_vars

\* the line holds the piece somewhere
Contains(line, piece) ==
    \E k \in 1..(Len(line) - Len(piece) + 1) :
        SubSeq(line, k, k + Len(piece) - 1) = piece

\* the call of _build_content ended with an exception
RenderFailed == "raised" \in DOMAIN result

\* C11: rendering a report to Markdown never fails because of a status that
\* is not a member of ValidationStatus; the row of such an integrity check
\* and the row of such a validation show the unknown marker.
C11_AsStated ==
    IsMarkdown =>
        /\ ~RenderFailed
        /\ \A i \in DOMAIN report.integrity_checks :
            LET c == report.integrity_checks[i] IN
                c.status \notin ValidationStatus =>
                    \E k \in DOMAIN result.text :
                        HasPrefix(result.text[k],
                                  "| :question: " \o c.check_name \o " |")
        /\ \A i \in DOMAIN report.entity_comparisons :
            \A j \in DOMAIN report.entity_comparisons[i].validations :
                LET v == report.entity_comparisons[i].validations[j] IN
                    v.status \notin ValidationStatus =>
                        \E k \in DOMAIN result.text :
                            /\ HasPrefix(result.text[k],
                                         "| " \o v.field_name \o " |")
                            /\ Contains(result.text[k], "| :question: ")

(***************************************************************************)
(* Properties of rendered documents (SpecDocument).                        *)
(***************************************************************************)
\* the heading is followed by a blank line and the placeholder
HasPlaceholder(text, heading, placeholder) ==
    \E i \in DOMAIN text :
        /\ i + 2 \in DOMAIN text
        /\ text[i] = heading
        /\ text[i + 1] = ""
        /\ text[i + 2] = placeholder

NumHeadings(text, prefix) == Cardinality(LinesWithPrefix(text, prefix))

\* C12: rendering completes for every report, whichever of sources_loaded,
\* integrity_checks and entity_comparisons are empty; an empty collection is
\* shown as its section heading followed by its placeholder, an entity
\* without validations is shown with its heading, zero counts and the table
\* head; each of the three data sections occurs exactly once.
C12_EmptySections ==
    IsMarkdown =>
        /\ ~RenderFailed
        /\ report.sources_loaded = <<>> =>
            HasPlaceholder(result.text, "## :file_folder: Fuentes de Datos",
                           "*No se cargaron fuentes (Sprint 0 skeleton)*")
        /\ report.integrity_checks = <<>> =>
            HasPlaceholder(result.text,
                "## :link: Verificaciones de Integridad",
                "*No hay verificaciones de integridad configuradas o ejecutadas*")
        /\ report.entity_comparisons = <<>> =>
            HasPlaceholder(result.text,
                "## :bar_chart: Comparaciones de Entidades",
                "*No hay comparaciones de entidades ejecutadas*")
        /\ \A i \in DOMAIN report.entity_comparisons :
            LET e == report.entity_comparisons[i] IN
                e.validations = <<>> =>
                    \E k \in DOMAIN result.text :
                        /\ k + 6 \in DOMAIN result.text
                        /\ result.text[k] =
                            "### " \o e.entity_type \o ": " \o e.entity_id
                        /\ result.text[k + 4] =
                            "**Resumen:** 0 :white_check_mark: | 0 :x: | 0 :blue_circle:"
                        /\ result.text[k + 6] =
                            "| Campo | Source | PBI | Estado | Mensaje |"
        /\ NumHeadings(result.text, "## :file_folder: Fuentes de Datos") = 1
        /\ NumHeadings(result.text, "## :link: Verificaciones de Integridad") = 1
        /\ NumHeadings(result.text, "## :bar_chart: Comparaciones de Entidades") = 1

\* a report with no sources, no integrity checks and no entity comparisons
\* was rendered and shows the three placeholders
C12_Witness ==
    /\ IsMarkdown
    /\ report.sources_loaded = <<>>
    /\ report.integrity_checks = <<>>
    /\ report.entity_comparisons = <<>>
    /\ \E i \in DOMAIN result.text :
            result.text[i] = "*No se cargaron fuentes (Sprint 0 skeleton)*"
    /\ \E i \in DOMAIN result.text :
            result.text[i] = "*No hay comparaciones de entidades ejecutadas*"

\* the line on which each section of a document begins
SectionStarts ==
    <<"# :mag: Reporte de Reconciliacion",
      "## :clipboard: Leyenda de Estados",
      "## :file_folder: Fuentes de Datos",
      "## :link: Verificaciones de Integridad",
      "## :bar_chart: Comparaciones de Entidades",
      "## :chart: Resumen Ejecutivo",
      "*Generado automaticamente por Recon Tool">>

\* the index of the only line of the text that begins with the prefix
LineOf(text, prefix) == CHOOSE i \in DOMAIN text : HasPrefix(text[i], prefix)

FiltersHeading == "## :mag: Filtros Aplicados"

\* C13: a rendered document has the applied-filters section exactly when the
\* filters given to the call are a non-empty mapping.  Without it the line
\* after the legend's rule is one blank line and then the sources heading;
\* with it the section sits between the legend and the sources.  The other
\* seven sections occur once each, in the order header, legend, sources,
\* integrity checks, entity comparisons, summary, footer.
C13_FiltersSection ==
    IsMarkdown /\ ~RenderFailed =>
        LET text == result.text
            sources == LineOf(text, SectionStarts[3])
        IN  /\ \A k \in DOMAIN SectionStarts :
                NumHeadings(text, SectionStarts[k]) = 1
            /\ \A k \in 1..(Len(SectionStarts) - 1) :
                LineOf(text, SectionStarts[k])
                    < LineOf(text, SectionStarts[k + 1])
            /\ text[1] = SectionStarts[1]
            /\ dict_truthy(filters) <=> NumHeadings(text, FiltersHeading) = 1
            /\ ~dict_truthy(filters) =>
                /\ NumHeadings(text, FiltersHeading) = 0
                /\ LegendEnd(text) = sources - 2
                /\ text[sources - 1] = ""
            /\ dict_truthy(filters) =>
                /\ LegendEnd(text) = LineOf(text, FiltersHeading) - 2
                /\ LineOf(text, FiltersHeading) < sources
                /\ text[sources - 2] = "---"
                /\ \A i \in DOMAIN filters.items :
                    text[LineOf(text, FiltersHeading) + 1 + i]
                        = FilterLine(filters.items[i])

\* a document was rendered with the empty mapping and has no filters
\* section, and the report has data in every collection
C13_Witness ==
    /\ IsMarkdown
    /\ filters = Dict(<<>>)
    /\ report.sources_loaded # <<>>
    /\ report.integrity_checks # <<>>
    /\ report.entity_comparisons # <<>>
    /\ NumHeadings(result.text, FiltersHeading) = 0
    /\ NumHeadings(result.text, "## :chart: Resumen Ejecutivo") = 1

(***************************************************************************)
(* Properties of repeated rendering (SpecFiles).                           *)
(***************************************************************************)
\* the content of the file of that name
FileContent(files, name) == (CHOOSE x \in files : x.name = name).content

FileExists(files, name) == \E x \in files : x.name = name

NumValidationsWith(e, s) ==
    Cardinality({j \in DOMAIN e.validations : e.validations[j].status = s})

\* the k-th smallest element of a set of numbers
Nth(S, k) == CHOOSE x \in S : Cardinality({y \in S : y < x}) = k - 1

IsDict == result.op = "ReconciliationReport.to_dict"

\* C15: for each entity of a report, the summary line of its Markdown block
\* shows the numbers of its validations with status MATCH, MISMATCH and
\* NOT_VERIFIABLE, and the summary of its JSON entry holds the same three
\* numbers (and the number of all its validations as total).
C15_CountsAgree ==
    /\ IsMarkdown /\ ~RenderFailed =>
        LET lines == LinesWithPrefix(result.text, "**Resumen:**") IN
            /\ Cardinality(lines) = Len(report.entity_comparisons)
            /\ \A i \in DOMAIN report.entity_comparisons :
                LET e == report.entity_comparisons[i] IN
                    result.text[Nth(lines, i)] =
                        "**Resumen:** "
                        \o ToString(NumValidationsWith(e, "MATCH"))
                        \o " :white_check_mark: | "
                        \o ToString(NumValidationsWith(e, "MISMATCH"))
                        \o " :x: | "
                        \o ToString(NumValidationsWith(e, "NOT_VERIFIABLE"))
                        \o " :blue_circle:"
    /\ IsDict =>
        /\ Len(result.doc.entity_comparisons) = Len(report.entity_comparisons)
        /\ \A i \in DOMAIN report.entity_comparisons :
            LET e == report.entity_comparisons[i]
                sm == result.doc.entity_comparisons[i].summary
            IN  /\ sm.match = NumValidationsWith(e, "MATCH")
                /\ sm.mismatch = NumValidationsWith(e, "MISMATCH")
                /\ sm.not_verifiable = NumValidationsWith(e, "NOT_VERIFIABLE")
                /\ sm.total = Len(e.validations)

\* the Markdown of a report with two entities: the first has a mismatch, a
\* not-verifiable and an uncounted validation, the second two matches and
\* a mismatch
C15_Witness ==
    /\ IsMarkdown
    /\ Len(report.entity_comparisons) = 2
    /\ Len(report.entity_comparisons[1].validations) = 3
    /\ \E i, j \in DOMAIN result.text :
        /\ i < j
        /\ result.text[i] =
            "**Resumen:** 0 :white_check_mark: | 1 :x: | 1 :blue_circle:"
        /\ result.text[j] =
            "**Resumen:** 2 :white_check_mark: | 1 :x: | 0 :blue_circle:"

(***************************************************************************)
(* The configuration model (config.py).  A parsed YAML document is null    *)
(* (an empty file), or a mapping from section names to section values; a   *)
(* mapping is a function on its keys, a list is a sequence.                *)
(***************************************************************************)
EmptyMap == [k \in {} |-> 0]

YamlNull == [y |-> "null"]

YamlMap(m) == [y |-> "map", m |-> m]

\* text that is not YAML
YamlInvalid == [y |-> "invalid"]

SourceConfig(name, src_config) ==
    [name |-> name,
     path |-> get_or(src_config, "path", ""),
     type |-> get_or(src_config, "type", "csv"),
     encoding |-> get_or(src_config, "encoding", "utf-8"),
     delimiter |-> get_or(src_config, "delimiter", ","),
     key_columns |-> get_or(src_config, "key_columns", <<>>)]

FieldMapping(mapping) ==
    [source_field |-> get_or(mapping, "source_field", ""),
     pbi_field |-> get_or(mapping, "pbi_field", ""),
     transform |-> get_or(mapping, "transform", PyNone),
     tolerance |-> get_or(mapping, "tolerance", PyNone),
     compare_type |-> get_or(mapping, "compare_type", "exact")]

ValidationRule(service_type, rule_config) ==
    [service_type |-> service_type,
     source_name |-> get_or(rule_config, "source_name", ""),
     field_mappings |->
        Map(FieldMapping, get_or(rule_config, "field_mappings", <<>>)),
     source_filters |-> get_or(rule_config, "source_filters", EmptyMap),
     pbi_filters |-> get_or(rule_config, "pbi_filters", EmptyMap)]

IntegrityCheck(check) ==
    [name |-> get_or(check, "name", ""),
     source_table |-> get_or(check, "source_table", ""),
     target_table |-> get_or(check, "target_table", ""),
     source_key |-> get_or(check, "source_key", ""),
     target_key |-> get_or(check, "target_key", ""),
     severity |-> get_or(check, "severity", "WARNING")]

\* ConfigLoader._parse_config(raw) for a raw document that is a mapping
_parse_config(raw) ==
    LET project == get_or(raw, "project", EmptyMap)
        raw_sources == get_or(raw, "sources", EmptyMap)
        raw_rules == get_or(raw, "validation_rules", EmptyMap)
        paths == get_or(raw, "paths", EmptyMap)
        settings == get_or(raw, "settings", EmptyMap)
    IN  [name |-> get_or(project, "name", "unknown"),
         description |-> get_or(project, "description", ""),
         version |-> get_or(project, "version", "0.1.0"),
         sources_base_path |-> get_or(paths, "sources_base", "."),
         pbi_model_path |-> get_or(paths, "pbi_model", ""),
         reports_output_path |-> get_or(paths, "reports_output", "./reports"),
         sources |->
            [name \in DOMAIN raw_sources |->
                SourceConfig(name, raw_sources[name])],
         validation_rules |->
            [service_type \in DOMAIN raw_rules |->
                ValidationRule(service_type, raw_rules[service_type])],
         integrity_checks |->
            Map(IntegrityCheck, get_or(raw, "integrity_checks", <<>>)),
         default_encoding |-> get_or(settings, "default_encoding", "utf-8"),
         numeric_tolerance |->
            get_or(settings, "numeric_tolerance", Frac(1, 100))]

(***************************************************************************)
(* SpecConfig: a caller constructs a ConfigLoader for a path and calls     *)
(* load(); the configuration file belongs to the environment, which may    *)
(* remove it or take away the permission to read it at any moment.         *)
(***************************************************************************)
ConfigPath == config_path("mvh")

ConfigFile(doc, readable) ==
    [name |-> ConfigPath, content |-> doc, readable |-> readable]

\* the mapping with the given items
DocOf(items) ==
    [k \in {items[i][1] : i \in DOMAIN items} |->
        items[CHOOSE i \in DOMAIN items : items[i][1] = k][2]]

\* documents with every subset of the six sections, the sections with all
\* or only some of their fields
SampleDocuments ==
    {YamlNull, YamlInvalid}
    \cup {YamlMap(DocOf(a \o b \o c \o d \o e \o f)) :
            a \in FilterItems("project",
                    {EmptyMap,
                     [name |-> "mvh", description |-> "MVH", version |-> "1.0"]}),
            b \in FilterItems("paths", {[sources_base |-> "data"]}),
            c \in FilterItems("sources",
                    {[services |-> [path |-> "services.csv"]],
                     [services |-> [path |-> "services.xlsx", type |-> "excel",
                                    encoding |-> "latin-1", delimiter |-> ";",
                                    key_columns |-> <<"service_id">>]]}),
            d \in FilterItems("validation_rules",
                    {[Broadband |->
                        [source_name |-> "services",
                         field_mappings |->
                            <<[source_field |-> "mrc", pbi_field |-> "MRC"]>>]],
                     [Broadband |-> [source_name |-> "ghost"]],
                     [Broadband |-> EmptyMap]}),
            e \in FilterItems("integrity_checks",
                    {<<[name |-> "services_sites"]>>,
                     <<[name |-> "circuits_sites", severity |-> "ERROR"]>>}),
            f \in FilterItems("settings",
                    {[default_encoding |-> "latin-1",
                      numeric_tolerance |-> Frac(5, 100)]})}

\* Path.exists()
PathExists(files, path) == \E x \in files : x.name = path

\* what ConfigLoader(path) gives its caller
ConfigLoader_init(files, path) ==
    IF ~PathExists(files, path)
       THEN [op |-> "ConfigLoader", raised |-> "ConfigurationError"]
       ELSE [op |-> "ConfigLoader", config_path |-> path]

\* what load() gives its caller: open() fails on a file that is gone or
\* may not be read, yaml.safe_load fails on text that is not YAML and gives
\* None for an empty document, on which raw.get fails
ConfigLoader_load(files, path) ==
    IF ~PathExists(files, path)
       THEN [op |-> "ConfigLoader.load", raised |-> "FileNotFoundError"]
    ELSE LET file == CHOOSE x \in files : x.name = path IN
        IF ~file.readable
           THEN [op |-> "ConfigLoader.load", raised |-> "PermissionError"]
        ELSE IF file.content = YamlInvalid
           THEN [op |-> "ConfigLoader.load", raised |-> "YAMLError"]
        ELSE IF file.content = YamlNull
           THEN [op |-> "ConfigLoader.load", raised |-> "AttributeError"]
        ELSE [op |-> "ConfigLoader.load",
              config |-> _parse_config(file.content.m)]

\* loader = ConfigLoader(config_path)
ConstructLoader ==
    /\ cli.pc = "start"
    /\ result' = ConfigLoader_init(fs, ConfigPath)
    /\ cli' = [pc |-> IF PathExists(fs, ConfigPath)
                         THEN "constructed" ELSE "failed"]
    /\ UNCHANGED fs

\* config = loader.load()
LoadConfig ==
    /\ cli.pc = "constructed"
    /\ result' = ConfigLoader_load(fs, ConfigPath)
    /\ UNCHANGED <<cli, fs>>

\* the environment removes the file
RemoveConfigFile ==
    /\ PathExists(fs, ConfigPath)
    /\ fs' = {x \in fs : x.name # ConfigPath}
    /\ result' = NoResult
    /\ UNCHANGED cli

\* the environment takes away the permission to read the file
MakeConfigUnreadable ==
    /\ \E x \in fs : x.name = ConfigPath /\ x.readable
    /\ fs' = {[x EXCEPT !.readable = FALSE] : x \in fs}
    /\ result' = NoResult
    /\ UNCHANGED cli

InitConfig ==
    /\ entity = EmptyEntity
    /\ icr = None
    /\ dqm = None
    /\ report = None
    /\ filters = NoFilters
    /\ result = NoResult
    /\ cli = [pc |-> "start"]
    /\ fs \in {{}} \cup {{ConfigFile(doc, readable)} :
                            doc \in SampleDocuments, readable \in BOOLEAN}

NextConfig ==
    /\ \/ ConstructLoader
       \/ LoadConfig
       \/ RemoveConfigFile
       \/ MakeConfigUnreadable
    /\ UNCHANGED <<entity, icr, dqm, report, filters>>

SpecConfig == InitConfig /\ [][NextConfig]_vars

IsLoad == result.op = "ConfigLoader.load"

\* the file the loader was constructed for, as it is now
TheConfigFile == CHOOSE x \in fs : x.name = ConfigPath

\* the file is there, may be read, and holds a YAML document
IsDocument ==
    /\ PathExists(fs, ConfigPath)
    /\ TheConfigFile.readable
    /\ TheConfigFile.content # YamlInvalid

\* the sections the document has
SectionsOf(doc) == IF doc = YamlNull THEN {} ELSE DOMAIN doc.m

\* C16: load() of a document returns a ProjectConfig whichever sections the
\* document lacks, a document without any section included: without sources
\* or validation_rules the mapping is empty, without integrity_checks the
\* list is empty, and fields that are not given have their defaults.
C16_AsStated ==
    IsLoad /\ IsDocument =>
        /\ "config" \in DOMAIN result
        /\ LET secs == SectionsOf(TheConfigFile.content)
               cfg == result.config
           IN  /\ "sources" \notin secs => DOMAIN cfg.sources = {}
               /\ "validation_rules" \notin secs =>
                    DOMAIN cfg.validation_rules = {}
               /\ "integrity_checks" \notin secs => cfg.integrity_checks = <<>>
               /\ "settings" \notin secs =>
                    /\ cfg.default_encoding = "utf-8"
                    /\ cfg.numeric_tolerance = Frac(1, 100)
               /\ "project" \notin secs => cfg.name = "unknown"

\* the file is missing or may not be read
MissingOrUnreadable ==
    \/ ~PathExists(fs, ConfigPath)
    \/ ~TheConfigFile.readable

\* C17: when the configuration file is missing at the moment the loader is
\* constructed, or missing or unreadable at the moment load() is called
\* (also when it was there at construction), the caller gets a
\* ConfigurationError and nothing else: no other exception, no ProjectConfig.
C17_AsStated ==
    /\ result.op = "ConfigLoader" /\ ~PathExists(fs, ConfigPath)
        => /\ "raised" \in DOMAIN result
           /\ result.raised = "ConfigurationError"
    /\ IsLoad /\ MissingOrUnreadable
        => /\ "raised" \in DOMAIN result
           /\ result.raised = "ConfigurationError"

\* C18: in every ProjectConfig that load() returns, the source_name of each
\* validation rule is a key of sources (a document with a rule that names
\* an undefined source, or none, is not loaded).
C18_AsStated ==
    IsLoad /\ "config" \in DOMAIN result =>
        \A st \in DOMAIN result.config.validation_rules :
            result.config.validation_rules[st].source_name
                \in DOMAIN result.config.sources

(***************************************************************************)
(* SpecWrite: generate with the ways it can fail.  The content is built    *)
(* first (report.to_dict() or _build_content, which raise on a status      *)
(* without .value); then the file is opened, which fails when the          *)
(* directory is not writable; then the content is written and the file     *)
(* closed, which fails part-way when the disk is full or a value cannot be *)
(* serialized, and leaves the file with a part of the content.             *)
(***************************************************************************)
IoOutcomes == {"ok", "open_fails", "write_fails"}

\* a proper part of the content, as a write that stopped part-way leaves it
Truncated(content) == [truncated |-> content]

IsTruncated(content) == "truncated" \in DOMAIN content

\* report.to_dict() reads .status.value of every check and validation
to_dict_raises(r) ==
    \/ \E i \in DOMAIN r.integrity_checks :
            ~has_value(r.integrity_checks[i].status)
    \/ _build_content_raises(r)

\* the exception a failed open or write raises
IoError(io) == IF io = "open_fails" THEN "PermissionError" ELSE "OSError"

\* a generate that reports the path whatever happened to the write
GenerateReturn_swallowing(op, path, io) == [op |-> op, path |-> path]

\* what generate gives its caller after the with block: the path when the
\* block completed, else the exception that left it
GenerateReturn(op, path, io) ==
    IF io = "ok" THEN [op |-> op, path |-> path]
    ELSE [op |-> op, raised |-> IoError(io)]

\* the files after the with block
FilesAfterWrite(files, path, content, io) ==
    CASE io = "ok" -> WriteFile(files, path, content)
      [] io = "open_fails" -> files
      [] io = "write_fails" -> WriteFile(files, path, Truncated(content))

\* JsonReporter.generate(report, f, pretty) under the outcome io
JsonReporter_generate(f, pretty, io) ==
    /\ CanWrite(JsonReporter_output_path(report, f))
    /\ filters' = f
    /\ IF to_dict_raises(report)
          THEN /\ result' = [op |-> "JsonReporter.generate",
                             raised |-> "AttributeError"]
               /\ fs' = fs
          ELSE /\ result' = GenerateReturn("JsonReporter.generate",
                                JsonReporter_output_path(report, f), io)
               /\ fs' = FilesAfterWrite(fs,
                            JsonReporter_output_path(report, f),
                            json_dumps(with_meta(
                                ReconciliationReport_to_dict(report)), pretty),
                            io)
    /\ UNCHANGED report

\* MarkdownReporter.generate(report, f) under the outcome io
MarkdownReporter_generate(f, io) ==
    /\ CanWrite(MarkdownReporter_output_path(report, f))
    /\ filters' = f
    /\ IF _build_content_raises(report)
          THEN /\ result' = [op |-> "MarkdownReporter.generate",
                             raised |-> "AttributeError"]
               /\ fs' = fs
          ELSE /\ result' = GenerateReturn("MarkdownReporter.generate",
                                MarkdownReporter_output_path(report, f), io)
               /\ fs' = FilesAfterWrite(fs,
                            MarkdownReporter_output_path(report, f),
                            [text |-> _build_content(report, f)], io)
    /\ UNCHANGED report

\* a report with a validation whose status has no .value
UnrenderableReport ==
    [ReconciliationReport("bad", SampleTime, "bad.yaml", Dict(<<>>))
        EXCEPT !.entity_comparisons =
            <<SiteEntity(<<ValidationResult("None", "Total MRC", PyNone,
                                            PyNone, "")>>)>>]

WriteFilters ==
    {NoFilters,
     Dict(<< <<"site_id", PyStr("146")>> >>),
     Dict(<< <<"vendor", PyStr("Verizon")>>,
             <<"service_type", PyStr("Broadband")>> >>),
     Dict(<< <<"site_id", PyStr("146")>>, <<"vendor", PyStr("Verizon")>> >>)}

InitWrite ==
    /\ entity = EmptyEntity
    /\ icr = None
    /\ dqm = None
    /\ report \in FileReports \cup {UnrenderableReport}
    /\ filters = NoFilters
    /\ result = NoResult
    /\ fs = {}
    /\ cli = IdleCli

NextWrite ==
    /\ \/ \E f \in WriteFilters, pretty \in BOOLEAN, io \in IoOutcomes :
            JsonReporter_generate(f, pretty, io)
       \/ \E f \in WriteFilters, io \in IoOutcomes :
            MarkdownReporter_generate(f, io)
    /\ UNCHANGED <<entity, icr, dqm, cli>>

SpecWrite == InitWrite /\ [][NextWrite]_vars

IsGenerate ==
    result.op \in {"JsonReporter.generate", "MarkdownReporter.generate"}

\* the result is a returned path
Returned == "path" \in DOMAIN result

\* the file at the returned path holds the whole document of the report
StoredComplete ==
    \E x \in fs :
        /\ x.name = result.path
        /\ ~IsTruncated(x.content)
        /\ result.op = "JsonReporter.generate" =>
            /\ x.content.json
                    = with_meta(ReconciliationReport_to_dict(report))
            /\ x.content.indent \in {0, 2}
        /\ result.op = "MarkdownReporter.generate" =>
            x.content = [text |-> _build_content(report, filters)]

\* C19: a generate that returns a path has stored the complete document at
\* that path; a generate ends either with a path or with an exception, never
\* both; and a call that leaves a file with only a part of the content, or
\* could not open the file, ends with the exception.
C19_CompleteOrRaise ==
    /\ [](IsGenerate =>
            /\ Returned <=> ~RenderFailed
            /\ Returned => StoredComplete)
    /\ [][(\E x \in fs' : x \notin fs /\ IsTruncated(x.content))
            => (IsGenerate' /\ RenderFailed' /\ ~Returned')]_vars

\* a generate failed part-way: the caller got the exception and the file
\* under the report's name holds a part of the document
C19_Witness ==
    /\ IsGenerate
    /\ RenderFailed
    /\ result.raised = "OSError"
    /\ \E x \in fs : IsTruncated(x.content)

(***************************************************************************)
(* A run whose configuration cannot be loaded (SpecRun).                   *)
(***************************************************************************)
\* loading the configuration of this run fails
LoadFails == cli.document.state # "valid"

\* C20: the only step of a run whose configuration cannot be loaded is the
\* exit with status 1; at that point, and ever after, the run has no report
\* and has written no file; a report exists, and a file is written, only in
\* a run whose configuration was loaded.
C20_AbortBeforeRender ==
    /\ [](cli.pc = "exited" =>
            /\ LoadFails
            /\ cli.exit_code = 1
            /\ report = None
            /\ fs = {}
            /\ result = NoResult)
    /\ [](report # None \/ fs # {} =>
            /\ ~LoadFails
            /\ cli.pc \in {"report", "markdown_done", "json_done", "done"})
    /\ [][cli.pc = "start" /\ LoadFails =>
            cli'.pc = "exited" /\ cli'.exit_code = 1]_vars
    /\ [][cli.pc = "exited" => UNCHANGED vars]_vars

\* a run asked for both files and found no configuration: it has exited
\* with status 1 and the output directory is empty
C20_Witness ==
    /\ cli.pc = "exited"
    /\ cli.exit_code = 1
    /\ cli.output = "all"
    /\ cli.document.state = "missing"
    /\ truthy(cli.site)
    /\ fs = {}

(***************************************************************************)
(* The detail table of an entity (SpecDocument).                           *)
(***************************************************************************)
NA == "*N/A*"

\* what a cell shows for a value: the marker for None, else the string form
Shown(value) == IF value = PyNone THEN NA ELSE str(value)

\* the row the table is to have for a validation
ExpectedRow(v) ==
    "| " \o v.field_name \o " | " \o Shown(v.source_value) \o " | "
        \o Shown(v.pbi_value) \o " | " \o STATUS_EMOJI[v.status] \o " "
        \o v.status \o " | " \o v.message \o " |"

\* the line of the heading of the i-th entity block
EntityHeadingLine(text, i) == Nth(LinesWithPrefix(text, "### "), i)

\* C21: in the Markdown of a report the table of each entity follows its
\* heading with the head and the rule, then has one row for each validation,
\* in the order of the list, and no row more; a cell of the source or the
\* PBI column is the N/A marker exactly when the value is None, and is the
\* string form of the value otherwise (0, False and the empty string
\* included).
C21_DetailRows ==
    IsMarkdown /\ ~RenderFailed =>
        \A i \in DOMAIN report.entity_comparisons :
            LET e == report.entity_comparisons[i]
                n == Len(e.validations)
                k == EntityHeadingLine(result.text, i)
            IN  /\ result.text[k] = "### " \o e.entity_type \o ": " \o e.entity_id
                /\ result.text[k + 6] = "| Campo | Source | PBI | Estado | Mensaje |"
                /\ result.text[k + 7] = "|-------|--------|-----|--------|---------|"
                /\ \A j \in 1..n : result.text[k + 7 + j] = ExpectedRow(e.validations[j])
                /\ ~HasPrefix(result.text[k + 8 + n], "|")
                /\ \A j \in 1..n :
                    /\ Shown(e.validations[j].source_value) = NA
                            <=> e.validations[j].source_value = PyNone
                    /\ Shown(e.validations[j].pbi_value) = NA
                            <=> e.validations[j].pbi_value = PyNone

\* a document with the rows of a mismatch whose PBI value is 0, of a value
\* False beside a missing one, and of two missing values, in that order
C21_Witness ==
    /\ IsMarkdown
    /\ \E k \in DOMAIN result.text :
        /\ k + 2 \in DOMAIN result.text
        /\ result.text[k] = "| Bandwidth | 100 | 0 | :x: MISMATCH | Values differ |"
        /\ result.text[k + 1] =
            "| Active | False | *N/A* | :blue_circle: NOT_VERIFIABLE | No data |"
        /\ result.text[k + 2] =
            "| Term | *N/A* | *N/A* | :purple_circle: RULE_NOT_DEFINED | No rule |"

(***************************************************************************)
(* SpecFrame: the render operations with the stores they make.  The        *)
(* program's objects are the report with the lists and mappings it owns,   *)
(* and the filters argument; a call may also make new objects of its own.  *)
(* to_dict() puts the report's sources_loaded and filters_applied mappings *)
(* themselves into the document it returns, so a store into the document   *)
(* reaches the report when it goes into one of these two.                  *)
(***************************************************************************)
NewDict == "new dict"

\* an output_data that is the report's own filters_applied mapping
to_dict_object_shared == "report.filters_applied"

\* the object that report.to_dict() returns: the dict literal of the return
\* statement, made anew by each call
to_dict_object == NewDict

\* the stores into objects that the operation makes, besides those into
\* lists and strings it made itself
Stores(op) ==
    IF op = "JsonReporter.generate"
       THEN <<[object |-> to_dict_object, key |-> "_meta", value |-> META]>>
       ELSE <<>>

\* object[key] = value
StoreItem(heap, store) ==
    CASE store.object = NewDict -> heap
      [] store.object = "report.filters_applied" ->
            [heap EXCEPT !.report.filters_applied.items =
                            Append(@, <<store.key, store.value>>)]
      [] store.object = "report.sources_loaded" ->
            [heap EXCEPT !.report.sources_loaded =
                            Append(@, <<store.key, store.value>>)]
      [] store.object = "filters" ->
            [heap EXCEPT !.filters.items =
                            Append(@, <<store.key, store.value>>)]

RECURSIVE AfterStores(_, _)
AfterStores(heap, stores) ==
    IF stores = <<>> THEN heap
    ELSE AfterStores(StoreItem(heap, Head(stores)), Tail(stores))

\* the report and the filters argument after the operation
HeapAfter(op) ==
    AfterStores([report |-> report, filters |-> filters], Stores(op))

\* JsonReporter(...).generate(report, filters, pretty)
FrameJsonGenerate(pretty) ==
    /\ CanWrite(JsonReporter_output_path(report, filters))
    /\ fs' = WriteFile(fs, JsonReporter_output_path(report, filters),
                json_dumps(with_meta(ReconciliationReport_to_dict(report)),
                           pretty))
    /\ result' = [op |-> "JsonReporter.generate",
                  path |-> JsonReporter_output_path(report, filters)]
    /\ report' = HeapAfter("JsonReporter.generate").report
    /\ filters' = HeapAfter("JsonReporter.generate").filters

\* JsonReporter(...).to_string(report, pretty)
FrameJsonToString(pretty) ==
    /\ result' = [op |-> "JsonReporter.to_string",
                  value |-> json_dumps(ReconciliationReport_to_dict(report),
                                       pretty)]
    /\ report' = HeapAfter("JsonReporter.to_string").report
    /\ filters' = HeapAfter("JsonReporter.to_string").filters
    /\ UNCHANGED fs

\* MarkdownReporter(...).generate(report, filters)
FrameMarkdownGenerate ==
    /\ CanWrite(MarkdownReporter_output_path(report, filters))
    /\ fs' = WriteFile(fs, MarkdownReporter_output_path(report, filters),
                       [text |-> _build_content(report, filters)])
    /\ result' = [op |-> "MarkdownReporter.generate",
                  path |-> MarkdownReporter_output_path(report, filters)]
    /\ report' = HeapAfter("MarkdownReporter.generate").report
    /\ filters' = HeapAfter("MarkdownReporter.generate").filters

\* report.to_dict()
FrameToDict ==
    /\ result' = [op |-> "ReconciliationReport.to_dict",
                  doc |-> ReconciliationReport_to_dict(report)]
    /\ report' = HeapAfter("ReconciliationReport.to_dict").report
    /\ filters' = HeapAfter("ReconciliationReport.to_dict").filters
    /\ UNCHANGED fs

FrameReports ==
    FileReports
    \cup {[ReconciliationReport("mvh", SampleTime, "configs/mvh.yaml",
                                Dict(<< <<"vendor", PyStr("Verizon")>> >>))
            EXCEPT !.sources_loaded = << <<"services", 12345>> >>,
                   !.entity_comparisons =
                        <<SiteEntity(<<V_mismatch, V_not_verifiable>>)>>]}

InitFrame ==
    /\ entity = EmptyEntity
    /\ icr = None
    /\ dqm = None
    /\ report \in FrameReports
    /\ filters \in FileFilters
    /\ result = NoResult
    /\ fs = {}
    /\ cli = IdleCli

NextFrame ==
    /\ \/ \E pretty \in BOOLEAN : FrameJsonGenerate(pretty)
       \/ \E pretty \in BOOLEAN : FrameJsonToString(pretty)
       \/ FrameMarkdownGenerate
       \/ FrameToDict
    /\ UNCHANGED <<entity, icr, dqm, cli>>

SpecFrame == InitFrame /\ [][NextFrame]_vars

\* the keys of a mapping kept as a sequence of items
ItemKeys(items) == {items[i][1] : i \in DOMAIN items}

\* C22: no render operation changes the report or the filters argument: the
\* report with its lists, its sources_loaded and filters_applied mappings and
\* every result in them, and the filters, are after the call what they were
\* before it.  The document that generate stores has the key _meta, and
\* neither the report nor a mapping it owns has it.
C22_ReportUnchanged ==
    /\ [][report' = report /\ filters' = filters]_vars
    /\ [](result.op = "JsonReporter.generate" =>
            /\ "_meta" \in DOMAIN FileContent(fs, result.path).json
            /\ "_meta" \notin DOMAIN report
            /\ "_meta" \notin ItemKeys(report.filters_applied.items)
            /\ "_meta" \notin ItemKeys(report.sources_loaded)
            /\ "_meta" \notin ItemKeys(filters.items))

\* generate has stored a document with _meta for a report that has filters
\* applied and sources loaded, called with a filters argument
C22_Witness ==
    /\ result.op = "JsonReporter.generate"
    /\ "_meta" \in DOMAIN FileContent(fs, result.path).json
    /\ report.filters_applied.items # <<>>
    /\ report.sources_loaded # <<>>
    /\ dict_truthy(filters)
    /\ FileContent(fs, result.path).json.filters_applied
            = report.filters_applied

====
